---- MODULE Spec2Model ----
(***************************************************************************)
(* spfnet: topology graph, SPF calculator, route manager and topology      *)
(* sync of one cluster of route nodes.                                     *)
(*                                                                         *)
(* Node ids are Go strings.  A string is modelled as the tuple of its      *)
(* character codes, so that concatenation (\o) and the lexicographic       *)
(* comparison of makeEdgeID are computed, not assumed.  Go maps are        *)
(* functions whose DOMAIN is the set of keys present.                      *)
(***************************************************************************)
EXTENDS Integers, Sequences, FiniteSets, TLC

VARIABLES
    nodes,        \* nodes[p]      : Topology.nodes of process p (id -> NodeInfo)
    edges,        \* edges[p]      : Topology.edges of process p (from -> to -> cost)
    routeTable,   \* routeTable[p] : RouteManager.routeTable.routes of p (dest -> Route)
    syncEnabled,  \* syncEnabled[p]: TopologySync.syncEnabled of p
    inbox,        \* inbox[p]      : Node.eventCh of p, the events serf has delivered
    started,      \* started[p]    : RouteNode.Start of p has run
    handled,      \* handled[p][q] : history: how many topology-syncs of q p has merged
    crashed,      \* crashed[p]    : p ran out of memory in a path loop that never ends
    unread,       \* unread[p]     : history: a Topology write no ComputeRoutes has read since
    lastOp,       \* history: the call that produced the current state
    stats,        \* stats[p]     : ForwardManager.stats of p
    connPool,     \* connPool[p]  : ForwardManager.connPool of p (peer id -> connection)
    conns,        \* conns[c]     : the gRPC client connection c: its owner, peer and state
                  \*                (and, as history, the function that closed it)
    calls,        \* the chain of ForwardPacket RPCs of the packet in flight, source first
    wire,         \* the request or response of the innermost RPC of the chain
    rm,           \* rm[p]        : RouteManager.mtx of p and the table RecomputeRoutes builds
    observed,     \* history: what the last GetRoute returned, and the tables around it
    life,         \* life[p]      : Node.ctx of p cancelled, gRPC server of p stopped
    merge,        \* merge[p]     : the topology-sync p's handleTopologySync is merging:
                  \*                the links still to go and the cost GetCost returned
    tasks         \* tasks[t]     : the goroutine t of one node: the lock operations of the
                  \*                call it runs, how many it has done, whether it waits in Lock

\* the state of forwarding, of the route table lock and of shutdown
extVars == <<stats, connPool, conns, calls, wire, rm, observed, life, merge, tasks>>

vars == <<nodes, edges, routeTable, syncEnabled, inbox, started, handled, crashed, unread, lastOp,
          stats, connPool, conns, calls, wire, rm, observed, life, merge, tasks>>

\* the processes of the cluster (every variable is a function on them)
Procs == DOMAIN nodes

----------------------------------------------------------------------------
(* Bounds *)

\* largest link cost the environment supplies
MaxCost == 3
\* largest number of links a drawn Topology holds
MaxLinks == 3
\* largest magnitude of a finite float64; a sum beyond it is an infinity
MaxFloat == 12

----------------------------------------------------------------------------
(* Strings *)

\* the character '-' (it sorts before every letter)
Dash == 0

IdA == <<1>>
IdB == <<1, 0, 1>>
IdC == <<1, 0, 1, 0, 1>>
IdD == <<2>>

\* "a", "a-a", "a-a-a"
Ids == {IdA, IdB, IdC}

\* and "b"
WideIds == Ids \cup {IdD}

\* Go's s < t on strings: bytewise lexicographic order
RECURSIVE StrLess(_, _)
StrLess(s, t) ==
    IF t = <<>> THEN FALSE
    ELSE IF s = <<>> THEN TRUE
    ELSE IF Head(s) # Head(t) THEN Head(s) < Head(t)
    ELSE StrLess(Tail(s), Tail(t))

----------------------------------------------------------------------------
(* Go maps *)

EmptyMap == [x \in {} |-> 0]

MapPut(m, k, v) == [x \in (DOMAIN m) \cup {k} |-> IF x = k THEN v ELSE m[x]]

MapDel(m, k) == [x \in (DOMAIN m) \ {k} |-> m[x]]

\* m[k] on a float64-valued map: the zero value when the key is missing
MapGet0(m, k) == IF k \in DOMAIN m THEN m[k] ELSE 0

\* m[k] on a string-valued map: "" when the key is missing
MapGetStr(m, k) == IF k \in DOMAIN m THEN m[k] ELSE <<>>

----------------------------------------------------------------------------
(* Topology *)

NodeStatusUnknown == "unknown"
NodeStatusAlive == "alive"

NodeInfo(id, status, rpcAddr) == [ID |-> id, Status |-> status, RPCAddr |-> rpcAddr]

NewTopologyNodes == EmptyMap
NewTopologyEdges == EmptyMap

\* AddNode: t.nodes[node.ID] = node
AddNodeNodes(n, info) == MapPut(n, info.ID, info)

\* an AddNode that always starts the node with a new, empty adjacency entry
AddNodeEdgesReset(e, id) == MapPut(e, id, EmptyMap)

\* AddNode: create the adjacency entry when it is missing
AddNodeEdges(e, id) == IF id \in DOMAIN e THEN e ELSE MapPut(e, id, EmptyMap)

RemoveNodeNodes(n, id) == MapDel(n, id)

\* a RemoveNode that forgets the sweep of the neighbours' entries
RemoveNodeEdgesNoSweep(e, id) == MapDel(e, id)

\* RemoveNode: delete id from every neighbour's entry, then delete id's entry
RemoveNodeEdges(e, id) ==
    LET neighbors == IF id \in DOMAIN e THEN DOMAIN e[id] ELSE {}
        swept == [x \in DOMAIN e |-> IF x \in neighbors THEN MapDel(e[x], id) ELSE e[x]]
    IN  MapDel(swept, id)

\* an UpdateLink that writes one direction only
UpdateLinkEdgesOneWay(e, from, to, cost) ==
    LET e1 == IF from \in DOMAIN e THEN e ELSE MapPut(e, from, EmptyMap)
        e2 == IF to \in DOMAIN e1 THEN e1 ELSE MapPut(e1, to, EmptyMap)
    IN  MapPut(e2, from, MapPut(e2[from], to, cost))

\* UpdateLink: create both entries on demand, write both directions
UpdateLinkEdges(e, from, to, cost) ==
    LET e1 == IF from \in DOMAIN e THEN e ELSE MapPut(e, from, EmptyMap)
        e2 == IF to \in DOMAIN e1 THEN e1 ELSE MapPut(e1, to, EmptyMap)
        e3 == MapPut(e2, from, MapPut(e2[from], to, cost))
    IN  MapPut(e3, to, MapPut(e3[to], from, cost))

\* RemoveLink: delete on a missing (nil) inner map is a no-op
RemoveLinkEdges(e, from, to) ==
    LET e1 == IF from \in DOMAIN e THEN MapPut(e, from, MapDel(e[from], to)) ELSE e
    IN  IF to \in DOMAIN e1 THEN MapPut(e1, to, MapDel(e1[to], from)) ELSE e1

\* GetCost: the second result (exists)
HasCost(e, from, to) == from \in DOMAIN e /\ to \in DOMAIN e[from]

\* GetCost: the first result (0 when the link is missing)
GetCost(e, from, to) == IF HasCost(e, from, to) THEN e[from][to] ELSE 0

\* GetNeighbors: a copy of the entry, empty when there is none
GetNeighbors(e, id) == IF id \in DOMAIN e THEN e[id] ELSE EmptyMap

\* GetNode: present or nil
HasNode(n, id) == id \in DOMAIN n

\* GetAllNodes: the ids of the registered NodeInfo records
GetAllNodes(n) == DOMAIN n

GetAdjacencyList(e) == e

----------------------------------------------------------------------------
(* SPF calculator *)

\* math.Inf(1)
Inf == 1000000

\* math.Inf(-1)
NegInf == 0 - Inf

\* float64 addition of a distance and a link cost: it overflows to an infinity, and
\* an infinity absorbs every finite addend
FloatAdd(x, y) ==
    IF x = Inf \/ x = NegInf THEN x
    ELSE IF x + y > MaxFloat THEN Inf
    ELSE IF x + y < 0 - MaxFloat THEN NegInf
    ELSE x + y

Route(dest, hop, cost, path) ==
    [Destination |-> dest, NextHop |-> hop, Cost |-> cost, Path |-> path]

\* NewRouteTable: no routes
NewRouteTable == EmptyMap

\* distance: +Inf for every registered node, 0 for the source; the source is enqueued
SPFInit(src, n) ==
    [distance |-> [id \in GetAllNodes(n) \cup {src} |-> IF id = src THEN 0 ELSE Inf],
     nextHop  |-> EmptyMap,
     previous |-> EmptyMap,
     pq       |-> {<<src, 0>>}]

\* the neighbours the inner loop relaxes: newCost < distance[neighborID], where a
\* missing key reads as 0
SPFImproved(st, curCost, neighbors) ==
    {nb \in DOMAIN neighbors : FloatAdd(curCost, neighbors[nb]) < MapGet0(st.distance, nb)}

\* a next hop that is the node before the destination, not the one after the source
SPFNextHopLast(st, src, cur, nb) == cur

\* next hop of a relaxed neighbour: itself from the source, else inherited
SPFNextHop(st, src, cur, nb) == IF cur = src THEN nb ELSE MapGetStr(st.nextHop, cur)

\* one iteration of the outer loop for the dequeued item.  The neighbours are
\* distinct keys, so the order of the inner loop does not change the result.
SPFStep(st, item, src, e) ==
    LET cur == item[1]
        curCost == item[2]
        rest == st.pq \ {item}
    IN  IF curCost > MapGet0(st.distance, cur)
        THEN [st EXCEPT !.pq = rest]
        ELSE
          LET neighbors == GetNeighbors(e, cur)
              improved == SPFImproved(st, curCost, neighbors)
              newCost(nb) == FloatAdd(curCost, neighbors[nb])
          IN  [distance |-> [x \in (DOMAIN st.distance) \cup improved |->
                                IF x \in improved THEN newCost(x) ELSE st.distance[x]],
               previous |-> [x \in (DOMAIN st.previous) \cup improved |->
                                IF x \in improved THEN cur ELSE st.previous[x]],
               nextHop  |-> [x \in (DOMAIN st.nextHop) \cup improved |->
                                IF x \in improved THEN SPFNextHop(st, src, cur, x)
                                ELSE st.nextHop[x]],
               pq       |-> rest \cup {<<nb, newCost(nb)>> : nb \in improved}]

\* Dequeue: an item of least priority (the heap's order among equals is not fixed)
SPFDequeue(pq) == {it \in pq : \A other \in pq : it[2] <= other[2]}

\* the states the main loop can end in.  Every relaxation lowers a distance and no
\* distance goes below -Inf, so the loop ends.
RECURSIVE SPFRun(_, _, _)
SPFRun(st, src, e) ==
    IF st.pq = {} THEN {st}
    ELSE UNION {SPFRun(nx, src, e) : nx \in {SPFStep(st, it, src, e) : it \in SPFDequeue(st.pq)}}

\* path reconstruction: follow previous from the destination, stop at the source
\* or at a node without predecessor; the slice is then reversed
RECURSIVE SPFPath(_, _, _)
SPFPath(previous, at, src) ==
    IF at = <<>> THEN <<>>
    ELSE IF at = src THEN <<at>>
    ELSE Append(SPFPath(previous, MapGetStr(previous, at), src), at)

\* the path loop ends: from at, previous leads to the source or to a node without
\* predecessor before it comes back to a node of seen
RECURSIVE SPFPathEnds(_, _, _, _)
SPFPathEnds(previous, at, src, seen) ==
    IF at = <<>> \/ at = src THEN TRUE
    ELSE IF at \in seen THEN FALSE
    ELSE SPFPathEnds(previous, MapGetStr(previous, at), src, seen \cup {at})

\* the destinations collected from a final state: not the source, not +Inf
SPFDests(st, src) == {d \in DOMAIN st.distance : d # src /\ st.distance[d] # Inf}

\* the routes collected from a final state
SPFCollect(st, src) ==
    [d \in SPFDests(st, src) |->
        Route(d, MapGetStr(st.nextHop, d), st.distance[d], SPFPath(st.previous, d, src))]

\* the final state lets every path loop end
SPFReturns(st, src) == \A d \in SPFDests(st, src) : SPFPathEnds(st.previous, d, src, {})

\* ComputeRoutes: every table the call can return for this Topology
ComputeRoutes(src, n, e) ==
    {SPFCollect(st, src) : st \in {f \in SPFRun(SPFInit(src, n), src, e) : SPFReturns(f, src)}}

\* ComputeRoutes can fail to return: some path loop follows previous around a cycle
\* that holds neither the source nor a node without predecessor, appending for ever
ComputeRoutesHangs(src, n, e) ==
    \E st \in SPFRun(SPFInit(src, n), src, e) : ~SPFReturns(st, src)

----------------------------------------------------------------------------
(* Route manager *)

Op(name, p, a, b, cost, fired) ==
    [op |-> name, proc |-> p, a |-> a, b |-> b, cost |-> cost, fired |-> fired,
     event |-> [NodeID |-> <<>>, Links |-> {}], lowered |-> {}, asked |-> 0, result |-> ""]

NoOp == Op("none", <<>>, <<>>, <<>>, 0, FALSE)

\* no topology-sync merged yet
NoneHandled == [q \in WideIds |-> 0]

\* the ForwardStats of a new ForwardManager
NewForwardStats ==
    [PacketsSent |-> 0, PacketsReceived |-> 0, PacketsForwarded |-> 0,
     PacketsDelivered |-> 0, PacketsDropped |-> 0]

\* no pb.Packet
NoPacket ==
    [Source |-> <<>>, Destination |-> <<>>, NextHop |-> <<>>, Payload |-> "", VisitedNodes |-> <<>>]

\* no RPC under way; delivered, failed and accepted are the history of the packet
\* in flight: its destination took it, some forwardPacket returned an error, the
\* first hop took it and delivered it or sent it on; payload is what SendPacket
\* was given
NoWire ==
    [kind |-> "none", to |-> <<>>, packet |-> NoPacket, Success |-> FALSE, Message |-> "",
     conn |-> 0, delivered |-> FALSE, failed |-> FALSE, accepted |-> FALSE, payload |-> ""]

\* no GetRoute has returned yet
NoSeen ==
    [taken |-> FALSE, pending |-> FALSE, fn |-> "", proc |-> <<>>, dest |-> <<>>, got |-> <<>>,
     during |-> FALSE, old |-> <<>>, new |-> <<>>]

\* no ComputeRoutes under way: its maps and its queue
NoSPF == [distance |-> <<>>, nextHop |-> <<>>, previous |-> <<>>, pq |-> {}]

\* NewRouteManager: the lock is free, no table is under construction; spf and
\* neighborCache are the locals of the ComputeRoutes under way, during the
\* adjacencies the Topology has held since it began
NewRouteManager ==
    [lock |-> "free", building |-> <<>>, target |-> <<>>, old |-> <<>>,
     spf |-> NoSPF, neighborCache |-> <<>>, during |-> {}]

\* NewNode: context.WithCancel, nothing cancelled; the gRPC server is not stopped
NewLife == [cancelled |-> FALSE, stopped |-> FALSE]

\* no handleTopologySync under way: at is where the handler stands ("idle",
\* "loop" between two links, "read" after GetCost returned), rest the links
\* still to merge, link the one at hand, existingCost and exists what GetCost
\* returned for it
NoMerge ==
    [at |-> "idle", rest |-> {}, link |-> [From |-> <<>>, To |-> <<>>, Cost |-> 0],
     existingCost |-> 0, exists |-> FALSE, topologyChanged |-> FALSE, NodeID |-> <<>>]

\* the goroutines of one node: one that forwards (a send of the application or a
\* ForwardPacket RPC for another node), one that serves a ForwardPacket RPC for
\* this node, the eventLoop, the periodicSyncLoop and a control RPC being served
Tasks == {"send", "incoming", "event", "periodic", "control"}

\* a goroutine between two calls: no lock operation to do, none done
NoTask == [prog |-> <<>>, pc |-> 0, waiting |-> FALSE]

\* NewForwardManager, NewRouteManager and NewNode of every process
InitExt ==
    /\ stats = [p \in Procs |-> NewForwardStats]
    /\ connPool = [p \in Procs |-> <<>>]
    /\ conns = <<>>
    /\ calls = <<>>
    /\ wire = NoWire
    /\ rm = [p \in Procs |-> NewRouteManager]
    /\ observed = NoSeen
    /\ merge = [p \in Procs |-> NoMerge]
    /\ tasks = [t \in Tasks |-> NoTask]
    /\ life = [p \in Procs |-> NewLife]

\* the change callback on the Topology (n, e) of p: RecomputeRoutes swaps in a table
\* ComputeRoutes returns, or ComputeRoutes never returns and p dies in it
TopologyChanged(p, n, e) ==
    \/ /\ \E tbl \in ComputeRoutes(p, n, e) : routeTable' = [routeTable EXCEPT ![p] = tbl]
       /\ crashed' = crashed
       /\ unread' = [unread EXCEPT ![p] = FALSE]
    \/ /\ ComputeRoutesHangs(p, n, e)
       /\ routeTable' = routeTable
       /\ crashed' = [crashed EXCEPT ![p] = TRUE]
       /\ unread' = [unread EXCEPT ![p] = TRUE]

\* RecomputeRoutes on the current Topology
RecomputeRoutes(p) ==
    /\ ~crashed[p]
    /\ TopologyChanged(p, nodes[p], edges[p])
    /\ lastOp' = Op("RecomputeRoutes", p, <<>>, <<>>, 0, TRUE)
    /\ UNCHANGED <<nodes, edges, syncEnabled, inbox, started, handled, extVars>>

----------------------------------------------------------------------------
(* Topology API driven directly *)

\* the two costs the direct driver writes
TopoCosts == {1, MaxCost}

\* unread after p's Topology became (n, e) with no recomputation
Unread(p, n, e) == [unread EXCEPT ![p] = @ \/ n # nodes[p] \/ e # edges[p]]

TopoAddNode(p, id) ==
    /\ nodes' = [nodes EXCEPT ![p] = AddNodeNodes(@, NodeInfo(id, NodeStatusAlive, <<>>))]
    /\ edges' = [edges EXCEPT ![p] = AddNodeEdges(@, id)]
    /\ unread' = Unread(p, nodes'[p], edges'[p])
    /\ lastOp' = Op("AddNode", p, id, <<>>, 0, FALSE)
    /\ UNCHANGED <<routeTable, syncEnabled, inbox, started, handled, crashed, extVars>>

TopoRemoveNode(p, id) ==
    /\ nodes' = [nodes EXCEPT ![p] = RemoveNodeNodes(@, id)]
    /\ edges' = [edges EXCEPT ![p] = RemoveNodeEdges(@, id)]
    /\ unread' = Unread(p, nodes'[p], edges'[p])
    /\ lastOp' = Op("RemoveNode", p, id, <<>>, 0, FALSE)
    /\ UNCHANGED <<routeTable, syncEnabled, inbox, started, handled, crashed, extVars>>

TopoUpdateLink(p, from, to, cost) ==
    /\ edges' = [edges EXCEPT ![p] = UpdateLinkEdges(@, from, to, cost)]
    /\ unread' = Unread(p, nodes[p], edges'[p])
    /\ lastOp' = Op("UpdateLink", p, from, to, cost, FALSE)
    /\ UNCHANGED <<nodes, routeTable, syncEnabled, inbox, started, handled, crashed, extVars>>

TopoRemoveLink(p, from, to) ==
    /\ edges' = [edges EXCEPT ![p] = RemoveLinkEdges(@, from, to)]
    /\ unread' = Unread(p, nodes[p], edges'[p])
    /\ lastOp' = Op("RemoveLink", p, from, to, 0, FALSE)
    /\ UNCHANGED <<nodes, routeTable, syncEnabled, inbox, started, handled, crashed, extVars>>

\* NewNode, NewRouteManager, NewTopologySync of the processes in ps
InitProcs(ps) ==
    /\ nodes = [p \in ps |-> NewTopologyNodes]
    /\ edges = [p \in ps |-> NewTopologyEdges]
    /\ routeTable = [p \in ps |-> NewRouteTable]
    /\ syncEnabled = [p \in ps |-> TRUE]
    /\ inbox = [p \in ps |-> <<>>]
    /\ started = [p \in ps |-> TRUE]
    /\ handled = [p \in ps |-> NoneHandled]
    /\ crashed = [p \in ps |-> FALSE]
    /\ unread = [p \in ps |-> FALSE]
    /\ lastOp = NoOp
    /\ InitExt

InitTopology == InitProcs({IdA})

NextTopology ==
    \E p \in Procs :
        \/ \E id \in Ids : TopoAddNode(p, id)
        \/ \E id \in Ids : TopoRemoveNode(p, id)
        \/ \E from \in Ids, to \in Ids, cost \in TopoCosts : TopoUpdateLink(p, from, to, cost)
        \/ \E from \in Ids, to \in Ids : TopoRemoveLink(p, from, to)

\* one Topology under any sequence of its mutators
SpecTopology == InitTopology /\ [][NextTopology]_vars

----------------------------------------------------------------------------
(* ComputeRoutes applied to drawn Topologies *)

\* the costs a drawn link carries; nothing rejects a negative cost before UpdateLink,
\* and the negative cost drawn is one whose double is below every finite float64
DrawnCosts == {0 - MaxFloat, 0, 1, MaxCost}

\* unordered pairs of ids, the pair of an id with itself included
Pairs == {pr \in Ids \X Ids : pr[1] = pr[2] \/ StrLess(pr[1], pr[2])}

\* the sets of at most MaxLinks links
LinkSets == {ls \in SUBSET Pairs : Cardinality(ls) <= MaxLinks}

\* the adjacency after UpdateLink for every link of f
RECURSIVE LinkedEdges(_, _)
LinkedEdges(f, todo) ==
    IF todo = {} THEN NewTopologyEdges
    ELSE LET pr == CHOOSE x \in todo : TRUE
         IN  UpdateLinkEdges(LinkedEdges(f, todo \ {pr}), pr[1], pr[2], f[pr])

\* the adjacency after AddNode for every id of ns
RECURSIVE RegisteredEdges(_, _)
RegisteredEdges(e, ns) ==
    IF ns = {} THEN e
    ELSE LET id == CHOOSE x \in ns : TRUE
         IN  AddNodeEdges(RegisteredEdges(e, ns \ {id}), id)

DrawnEdges(f, ns) == RegisteredEdges(LinkedEdges(f, DOMAIN f), ns)

DrawnNodes(ns) == [id \in ns |-> NodeInfo(id, NodeStatusAlive, <<>>)]

\* a process whose Topology holds the links of f and the NodeInfo records of ns
InitSPF ==
    \E self \in Ids, ls \in LinkSets, ns \in SUBSET Ids : \E f \in [ls -> DrawnCosts] :
        /\ nodes = [p \in {self} |-> DrawnNodes(ns)]
        /\ edges = [p \in {self} |-> DrawnEdges(f, ns)]
        /\ routeTable = [p \in {self} |-> NewRouteTable]
        /\ syncEnabled = [p \in {self} |-> TRUE]
        /\ inbox = [p \in {self} |-> <<>>]
        /\ started = [p \in {self} |-> TRUE]
        /\ handled = [p \in {self} |-> NoneHandled]
        /\ crashed = [p \in {self} |-> FALSE]
        /\ unread = [p \in {self} |-> TRUE]
        /\ lastOp = NoOp
        /\ InitExt

NextSPF == \E p \in Procs : RecomputeRoutes(p)

\* the costs of the links drawn among four nodes
WideCosts == {0, 1, MaxCost}

\* the links between different nodes of WideIds
WidePairs == {pr \in WideIds \X WideIds : StrLess(pr[1], pr[2])}

\* a process among four nodes, any set of links between them, any set of NodeInfo records
InitSPFWide ==
    \E self \in WideIds, ls \in SUBSET WidePairs, ns \in SUBSET WideIds :
      \E f \in [ls -> WideCosts] :
        /\ nodes = [p \in {self} |-> DrawnNodes(ns)]
        /\ edges = [p \in {self} |-> DrawnEdges(f, ns)]
        /\ routeTable = [p \in {self} |-> NewRouteTable]
        /\ syncEnabled = [p \in {self} |-> TRUE]
        /\ inbox = [p \in {self} |-> <<>>]
        /\ started = [p \in {self} |-> TRUE]
        /\ handled = [p \in {self} |-> NoneHandled]
        /\ crashed = [p \in {self} |-> FALSE]
        /\ unread = [p \in {self} |-> TRUE]
        /\ lastOp = NoOp
        /\ InitExt

\* ComputeRoutes from any source over any graph of four nodes
SpecSPFWide == InitSPFWide /\ [][NextSPF]_vars

\* ComputeRoutes from any source over any drawn Topology
SpecSPF == InitSPF /\ [][NextSPF]_vars

----------------------------------------------------------------------------
(* Topology sync: events *)

EventLinkUpdate == "link-update"
EventTopologySync == "topology-sync"
EventMemberJoin == "member-join"
EventMemberLeave == "member-leave"

\* serf.MemberEvent with one member
MemberEvent(type, name) == [type |-> type, Name |-> name]

LinkUpdateEvent(from, to, cost, op) ==
    [type |-> EventLinkUpdate, From |-> from, To |-> to, Cost |-> cost, Op |-> op]

TopologyLinkEntry(from, to, cost) == [From |-> from, To |-> to, Cost |-> cost]

\* Links is a set: the entries of one broadcast are different unordered pairs, so
\* the order in which the receiver merges them does not change the result
TopologySyncEvent(nodeID, links) ==
    [type |-> EventTopologySync, NodeID |-> nodeID, Links |-> links]

\* a user event of the given name whose payload is no JSON of the event's type
UndecodableEvent(name) == [type |-> name, Payload |-> "{"]

\* json.Unmarshal of the event's payload returns no error
Unmarshals(ev) == "Payload" \notin DOMAIN ev

\* capacity of eventCh
MaxInbox == 1

\* the members serf delivers a user event to: every started process, the sender too
Members == {q \in Procs : started[q]}

\* serf.UserEvent succeeded: ev is in every member's eventCh
Emitted(ev) == [q \in Procs |-> IF q \in Members THEN Append(inbox[q], ev) ELSE inbox[q]]

\* every member's eventCh has room (serf blocks on a full channel)
CanEmit == \A q \in Members : Len(inbox[q]) < MaxInbox

----------------------------------------------------------------------------
(* Topology sync: periodic broadcast *)

makeEdgeID(from, to) ==
    IF StrLess(from, to) THEN from \o <<Dash>> \o to ELSE to \o <<Dash>> \o from

\* the orders in which one broadcast can range over the keys of a map
Orders(keys) ==
    {o \in [1 .. Cardinality(keys) -> keys] :
        \A i, j \in 1 .. Cardinality(keys) : o[i] = o[j] => i = j}

\* the keys of an adjacency, outer and inner
AdjKeys(adj) == (DOMAIN adj) \cup UNION {DOMAIN adj[k] : k \in DOMAIN adj}

\* the orders in which a process can range over its adjacency
RangeOrders(p) == Orders(AdjKeys(GetAdjacencyList(edges[p])))

\* broadcastFullTopology's loops from the k-th (from, to) pair of the order on:
\* an entry is appended unless its edge id has been visited
RECURSIVE BroadcastLinks(_, _, _, _, _)
BroadcastLinks(adj, order, k, links, visited) ==
    LET n == Len(order)
    IN  IF k > n * n THEN links
        ELSE
          LET from == order[((k - 1) \div n) + 1]
              to == order[((k - 1) % n) + 1]
              edgeID == makeEdgeID(from, to)
          IN  IF HasCost(adj, from, to) /\ edgeID \notin visited
              THEN BroadcastLinks(adj, order, k + 1,
                                  links \cup {TopologyLinkEntry(from, to, adj[from][to])},
                                  visited \cup {edgeID})
              ELSE BroadcastLinks(adj, order, k + 1, links, visited)

\* the event broadcastFullTopology assembles when the maps are ranged over in order
FullTopologyEvent(p, order) ==
    TopologySyncEvent(p, BroadcastLinks(GetAdjacencyList(edges[p]), order, 1, {}, {}))

\* a broadcast that pays no heed to syncEnabled
SyncSkippedNever(enabled) == FALSE

\* broadcastFullTopology returns nil at once when sync is disabled
SyncSkipped(enabled) == ~enabled

\* one tick of periodicSyncLoop: broadcastFullTopology, which returns at once when
\* sync is disabled; serf.UserEvent succeeds (ok) or returns an error
PeriodicSync(p, order, ok) ==
    /\ started[p] /\ ~crashed[p]
    /\ ~life[p].cancelled
    /\ IF SyncSkipped(syncEnabled[p])
       THEN /\ inbox' = inbox
            /\ lastOp' = [Op("broadcastFullTopology", p, <<>>, <<>>, 0, FALSE)
                              EXCEPT !.result = "disabled"]
       ELSE /\ IF ok
               THEN CanEmit /\ inbox' = Emitted(FullTopologyEvent(p, order))
               ELSE inbox' = inbox
            /\ lastOp' = Op("broadcastFullTopology", p, <<>>, <<>>, 0, ok)
    /\ UNCHANGED <<nodes, edges, routeTable, syncEnabled, started, handled, crashed, unread, extVars>>

\* EnableSync
EnableSync(p, enabled) ==
    /\ started[p] /\ ~crashed[p]
    /\ syncEnabled' = [syncEnabled EXCEPT ![p] = enabled]
    /\ lastOp' = Op("EnableSync", p, <<>>, <<>>, 0, enabled)
    /\ UNCHANGED <<nodes, edges, routeTable, inbox, started, handled, crashed, unread, extVars>>

----------------------------------------------------------------------------
(* Topology sync: event handlers *)

\* a rule that adopts a link only when it is absent locally
LinkAdoptedAbsentOnly(e, link) == ~HasCost(e, link.From, link.To)

\* a rule that also adopts a link of the same cost
LinkAdoptedOrEqual(e, link) ==
    \/ ~HasCost(e, link.From, link.To)
    \/ link.Cost <= GetCost(e, link.From, link.To)

\* a rule by which the last writer wins: every incoming link is adopted
LinkAdoptedAlways(e, link) == TRUE

\* handleTopologySync's rule for one link: adopt it when it is absent locally or
\* strictly cheaper than the local cost
LinkAdopted(e, link) ==
    \/ ~HasCost(e, link.From, link.To)
    \/ link.Cost < GetCost(e, link.From, link.To)

\* handleTopologySync's loop over the links still to merge
RECURSIVE MergeLinks(_, _)
MergeLinks(e, links) ==
    IF links = {} THEN e
    ELSE LET link == CHOOSE x \in links : TRUE
             e1 == IF LinkAdopted(e, link)
                   THEN UpdateLinkEdges(e, link.From, link.To, link.Cost)
                   ELSE e
         IN  MergeLinks(e1, links \ {link})

\* topologyChanged: some link of the loop was adopted
RECURSIVE MergeChanged(_, _)
MergeChanged(e, links) ==
    IF links = {} THEN FALSE
    ELSE LET link == CHOOSE x \in links : TRUE
         IN  IF LinkAdopted(e, link)
             THEN TRUE
             ELSE MergeChanged(e, links \ {link})

\* what handleTopologySync logs as "Updated link cost": the links it adopts in
\* place of a dearer cost, each with the cost it replaces
Lowered(e, links) ==
    {<<link, GetCost(e, link.From, link.To)>> :
        link \in {x \in links : HasCost(e, x.From, x.To) /\ LinkAdopted(e, x)}}

\* the eventLoop of p, which returns once Node.ctx is cancelled, takes the next
\* event of eventCh
Receives(p, type) ==
    /\ started[p] /\ ~crashed[p]
    /\ ~life[p].cancelled
    /\ inbox[p] # <<>>
    /\ Head(inbox[p]).type = type

Received(p) == [inbox EXCEPT ![p] = Tail(@)]

\* count one more merged topology-sync of q (two stands for two or more)
Counted(p, q) == [handled EXCEPT ![p][q] = IF @ < 2 THEN @ + 1 ELSE @]

\* handleTopologySync: an event of one's own is dropped; the callback is
\* triggered only if a link was adopted
HandleTopologySync(p) ==
    /\ Receives(p, EventTopologySync)
    /\ Unmarshals(Head(inbox[p]))
    /\ LET event == Head(inbox[p])
           merged == MergeLinks(edges[p], event.Links)
           topologyChanged == MergeChanged(edges[p], event.Links)
       IN  /\ inbox' = Received(p)
           /\ IF event.NodeID = p
              THEN /\ lastOp' = [Op("handleTopologySync", p, <<>>, <<>>, 0, FALSE)
                                      EXCEPT !.event = event]
                   /\ UNCHANGED <<nodes, edges, routeTable, handled, crashed, unread>>
              ELSE /\ edges' = [edges EXCEPT ![p] = merged]
                   /\ handled' = Counted(p, event.NodeID)
                   /\ lastOp' = [Op("handleTopologySync", p, <<>>, <<>>, 0, topologyChanged)
                                      EXCEPT !.event = event,
                                             !.lowered = Lowered(edges[p], event.Links)]
                   /\ IF topologyChanged
                      THEN TopologyChanged(p, nodes[p], edges'[p])
                      ELSE UNCHANGED <<routeTable, crashed, unread>>
                   /\ UNCHANGED nodes
    /\ UNCHANGED <<syncEnabled, started, extVars>>

\* handleTopologySync, statement by statement: the eventLoop takes a
\* topology-sync of another member off eventCh and enters the loop over its links
MergeBegins(p) ==
    /\ Receives(p, EventTopologySync)
    /\ Unmarshals(Head(inbox[p]))
    /\ merge[p].at = "idle"
    /\ Head(inbox[p]).NodeID # p
    /\ inbox' = Received(p)
    /\ merge' = [merge EXCEPT ![p] = [NoMerge EXCEPT !.at = "loop",
                                                     !.rest = Head(inbox[p]).Links,
                                                     !.NodeID = Head(inbox[p]).NodeID]]
    /\ lastOp' = [Op("handleTopologySync begins", p, <<>>, <<>>, 0, FALSE)
                      EXCEPT !.event = Head(inbox[p])]
    /\ UNCHANGED <<nodes, edges, routeTable, syncEnabled, started, handled, crashed, unread>>
    /\ UNCHANGED <<stats, connPool, conns, calls, wire, rm, observed, life, tasks>>

\* existingCost, exists := ts.topology.GetCost(link.From, link.To): the read lock
\* of the Topology is taken and released inside GetCost
MergeGetCost(p, link) ==
    /\ started[p] /\ ~crashed[p]
    /\ merge[p].at = "loop"
    /\ link \in merge[p].rest
    /\ merge' = [merge EXCEPT ![p].at = "read",
                              ![p].link = link,
                              ![p].existingCost = GetCost(edges[p], link.From, link.To),
                              ![p].exists = HasCost(edges[p], link.From, link.To)]
    /\ lastOp' = Op("GetCost", p, link.From, link.To, GetCost(edges[p], link.From, link.To),
                    HasCost(edges[p], link.From, link.To))
    /\ UNCHANGED <<nodes, edges, routeTable, syncEnabled, inbox, started, handled, crashed, unread>>
    /\ UNCHANGED <<stats, connPool, conns, calls, wire, rm, observed, life, tasks>>

\* the branch on what GetCost returned: a link that was absent, or dearer than
\* the incoming cost, is written by ts.topology.UpdateLink, which takes the
\* write lock of the Topology anew
MergeUpdateLink(p) ==
    /\ started[p] /\ ~crashed[p]
    /\ merge[p].at = "read"
    /\ LET link == merge[p].link
           adopted == \/ ~merge[p].exists
                      \/ (merge[p].existingCost # link.Cost /\ link.Cost < merge[p].existingCost)
           e1 == IF adopted
                 THEN UpdateLinkEdges(edges[p], link.From, link.To, link.Cost)
                 ELSE edges[p]
       IN  /\ edges' = [edges EXCEPT ![p] = e1]
           /\ merge' = [merge EXCEPT ![p].at = "loop",
                                     ![p].rest = @ \ {link},
                                     ![p].topologyChanged = @ \/ adopted]
           /\ unread' = Unread(p, nodes[p], e1)
           /\ lastOp' = Op("handleTopologySync merges", p, link.From, link.To, link.Cost, adopted)
    /\ UNCHANGED <<nodes, routeTable, syncEnabled, inbox, started, handled, crashed>>
    /\ UNCHANGED <<stats, connPool, conns, calls, wire, rm, observed, life, tasks>>

\* after the last link: the callback is triggered if a link was adopted
MergeEnds(p) ==
    /\ started[p] /\ ~crashed[p]
    /\ merge[p].at = "loop" /\ merge[p].rest = {}
    /\ merge' = [merge EXCEPT ![p] = NoMerge]
    /\ handled' = Counted(p, merge[p].NodeID)
    /\ IF merge[p].topologyChanged
       THEN TopologyChanged(p, nodes[p], edges[p])
       ELSE UNCHANGED <<routeTable, crashed, unread>>
    /\ lastOp' = Op("handleTopologySync", p, <<>>, <<>>, 0, merge[p].topologyChanged)
    /\ UNCHANGED <<nodes, edges, syncEnabled, inbox, started>>
    /\ UNCHANGED <<stats, connPool, conns, calls, wire, rm, observed, life, tasks>>

\* handleLinkUpdate: update or remove the link, then trigger the callback
HandleLinkUpdate(p) ==
    /\ Receives(p, EventLinkUpdate)
    /\ Unmarshals(Head(inbox[p]))
    /\ LET event == Head(inbox[p])
           e1 == IF event.Op \in {"add", "update"}
                 THEN UpdateLinkEdges(edges[p], event.From, event.To, event.Cost)
                 ELSE IF event.Op = "remove"
                      THEN RemoveLinkEdges(edges[p], event.From, event.To)
                      ELSE edges[p]
       IN  /\ inbox' = Received(p)
           /\ edges' = [edges EXCEPT ![p] = e1]
           /\ TopologyChanged(p, nodes[p], e1)
           /\ lastOp' = Op("handleLinkUpdate", p, event.From, event.To, event.Cost, TRUE)
    /\ UNCHANGED <<nodes, syncEnabled, started, handled, extVars>>

\* a dispatch that hands the event to its handler whatever json.Unmarshal returned
DispatchedAlways(decoded) == TRUE

\* handleUserEvent hands the event to its handler, which triggers the callback,
\* only when json.Unmarshal returned no error
Dispatched(decoded) == decoded

\* handleUserEvent on a link-update or topology-sync whose payload json.Unmarshal
\* rejects: the error is logged and handleUserEvent returns, the eventLoop goes
\* on to its next select
HandleUndecodable(p) ==
    /\ \E type \in {EventLinkUpdate, EventTopologySync} : Receives(p, type)
    /\ ~Unmarshals(Head(inbox[p]))
    /\ inbox' = Received(p)
    /\ IF Dispatched(Unmarshals(Head(inbox[p])))
       THEN TopologyChanged(p, nodes[p], edges[p])
       ELSE UNCHANGED <<routeTable, crashed, unread>>
    /\ lastOp' = [Op("handleUserEvent", p, <<>>, <<>>, 0, Dispatched(Unmarshals(Head(inbox[p]))))
                      EXCEPT !.result = "error"]
    /\ UNCHANGED <<nodes, edges, syncEnabled, started, handled, extVars>>

\* handleNodeJoin: add the member as an alive node, then trigger the callback
HandleNodeJoin(p) ==
    /\ Receives(p, EventMemberJoin)
    /\ LET member == Head(inbox[p])
           n1 == AddNodeNodes(nodes[p], NodeInfo(member.Name, NodeStatusAlive, <<>>))
           e1 == AddNodeEdges(edges[p], member.Name)
       IN  /\ inbox' = Received(p)
           /\ nodes' = [nodes EXCEPT ![p] = n1]
           /\ edges' = [edges EXCEPT ![p] = e1]
           /\ TopologyChanged(p, n1, e1)
           /\ lastOp' = Op("handleNodeJoin", p, member.Name, <<>>, 0, TRUE)
    /\ UNCHANGED <<syncEnabled, started, handled, extVars>>

\* handleNodeLeave: remove the member, then trigger the callback
HandleNodeLeave(p) ==
    /\ Receives(p, EventMemberLeave)
    /\ LET member == Head(inbox[p])
           n1 == RemoveNodeNodes(nodes[p], member.Name)
           e1 == RemoveNodeEdges(edges[p], member.Name)
       IN  /\ inbox' = Received(p)
           /\ nodes' = [nodes EXCEPT ![p] = n1]
           /\ edges' = [edges EXCEPT ![p] = e1]
           /\ TopologyChanged(p, n1, e1)
           /\ lastOp' = Op("handleNodeLeave", p, member.Name, <<>>, 0, TRUE)
    /\ UNCHANGED <<syncEnabled, started, handled, extVars>>

----------------------------------------------------------------------------
(* Topology sync: local changes *)

\* RegisterLink: update the link, emit a link-update, trigger the callback; an
\* emit that fails returns the error before the trigger
RegisterLink(p, from, to, cost, ok) ==
    /\ started[p] /\ ~crashed[p]
    /\ LET e1 == UpdateLinkEdges(edges[p], from, to, cost)
       IN  /\ edges' = [edges EXCEPT ![p] = e1]
           /\ IF ok
              THEN /\ CanEmit
                   /\ inbox' = Emitted(LinkUpdateEvent(from, to, cost, "update"))
                   /\ TopologyChanged(p, nodes[p], e1)
              ELSE /\ inbox' = inbox
                   /\ unread' = Unread(p, nodes[p], e1)
                   /\ UNCHANGED <<routeTable, crashed>>
    /\ lastOp' = [Op("RegisterLink", p, from, to, cost, ok)
                      EXCEPT !.result = IF ok THEN "ok" ELSE "error"]
    /\ UNCHANGED <<nodes, syncEnabled, started, handled, extVars>>

\* UnregisterLink: remove the link, emit a link-update, trigger the callback; an
\* emit that fails returns the error before the trigger
UnregisterLink(p, from, to, ok) ==
    /\ started[p] /\ ~crashed[p]
    /\ LET e1 == RemoveLinkEdges(edges[p], from, to)
       IN  /\ edges' = [edges EXCEPT ![p] = e1]
           /\ IF ok
              THEN /\ CanEmit
                   /\ inbox' = Emitted(LinkUpdateEvent(from, to, 0, "remove"))
                   /\ TopologyChanged(p, nodes[p], e1)
              ELSE /\ inbox' = inbox
                   /\ unread' = Unread(p, nodes[p], e1)
                   /\ UNCHANGED <<routeTable, crashed>>
    /\ lastOp' = [Op("UnregisterLink", p, from, to, 0, ok)
                      EXCEPT !.result = IF ok THEN "ok" ELSE "error"]
    /\ UNCHANGED <<nodes, syncEnabled, started, handled, extVars>>

\* a neighbour address "ip:port"
HostPort == <<9>>

\* probeLinkCost: a cost of the neighbour's ProbeLinkQuality, or an error
ProbeResults ==
    {[Cost |-> 0, err |-> TRUE]} \cup {[Cost |-> c, err |-> FALSE] : c \in TopoCosts}

\* ControlServer.AddLink: add the neighbour, probe the cost when asked to or when
\* the requested cost is not positive, update the link, RegisterLink
ControlAddLink(p, neighbor, address, cost, autoProbe, probe, ok) ==
    /\ started[p] /\ ~crashed[p]
    /\ ~life[p].stopped
    /\ IF neighbor = <<>> \/ address = <<>>
       THEN /\ lastOp' = Op("AddLink", p, neighbor, address, 0, FALSE)
            /\ UNCHANGED <<nodes, edges, routeTable, inbox, crashed, unread>>
       ELSE
         LET n1 == AddNodeNodes(nodes[p], NodeInfo(neighbor, NodeStatusUnknown, address))
             e1 == AddNodeEdges(edges[p], neighbor)
             probed == autoProbe \/ cost <= 0
             finalCost == IF probed THEN probe.Cost ELSE cost
             e2 == UpdateLinkEdges(e1, p, neighbor, finalCost)
             e3 == UpdateLinkEdges(e2, p, neighbor, finalCost)
         IN  /\ nodes' = [nodes EXCEPT ![p] = n1]
             /\ IF probed /\ probe.err
                THEN /\ edges' = [edges EXCEPT ![p] = e1]
                     /\ unread' = Unread(p, n1, e1)
                     /\ lastOp' = Op("AddLink", p, neighbor, address, 0, FALSE)
                     /\ UNCHANGED <<routeTable, inbox, crashed>>
                ELSE /\ edges' = [edges EXCEPT ![p] = e3]
                     /\ lastOp' = [Op("AddLink", p, neighbor, address, finalCost, TRUE)
                                       EXCEPT !.asked = cost]
                     /\ IF ok
                        THEN /\ CanEmit
                             /\ inbox' = Emitted(LinkUpdateEvent(p, neighbor, finalCost, "update"))
                             /\ TopologyChanged(p, n1, e3)
                        ELSE /\ inbox' = inbox
                             /\ unread' = Unread(p, n1, e3)
                             /\ UNCHANGED <<routeTable, crashed>>
    /\ UNCHANGED <<syncEnabled, started, handled, extVars>>

\* RouteNode.AddLink: add the neighbour (no argument is validated), probe the cost
\* when autoProbe is set or the cost is not positive and return the error of a
\* failed probe, update the link, RegisterLink (its error is only logged)
RouteNodeAddLink(p, neighborID, neighborAddr, cost, autoProbe, probe, ok) ==
    /\ started[p] /\ ~crashed[p]
    /\ LET n1 == AddNodeNodes(nodes[p], NodeInfo(neighborID, NodeStatusUnknown, neighborAddr))
           e1 == AddNodeEdges(edges[p], neighborID)
           probed == autoProbe \/ cost <= 0
           finalCost == IF probed THEN probe.Cost ELSE cost
           e2 == UpdateLinkEdges(e1, p, neighborID, finalCost)
           e3 == UpdateLinkEdges(e2, p, neighborID, finalCost)
       IN  /\ nodes' = [nodes EXCEPT ![p] = n1]
           /\ IF probed /\ probe.err
              THEN /\ edges' = [edges EXCEPT ![p] = e1]
                   /\ unread' = Unread(p, n1, e1)
                   /\ lastOp' = [Op("RouteNode.AddLink", p, neighborID, neighborAddr, 0, FALSE)
                                     EXCEPT !.asked = cost]
                   /\ UNCHANGED <<routeTable, inbox, crashed>>
              ELSE /\ edges' = [edges EXCEPT ![p] = e3]
                   /\ lastOp' = [Op("RouteNode.AddLink", p, neighborID, neighborAddr, finalCost, TRUE)
                                     EXCEPT !.asked = cost]
                   /\ IF ok
                      THEN /\ CanEmit
                           /\ inbox' = Emitted(LinkUpdateEvent(p, neighborID, finalCost, "update"))
                           /\ TopologyChanged(p, n1, e3)
                      ELSE /\ inbox' = inbox
                           /\ unread' = Unread(p, n1, e3)
                           /\ UNCHANGED <<routeTable, crashed>>
    /\ UNCHANGED <<syncEnabled, started, handled, extVars>>

\* the SDK's Node.AddLink(neighborID, neighborAddr, cost): RouteNode.AddLink with
\* autoProbe set
SdkAddLink(p, neighborID, neighborAddr, cost, probe, ok) ==
    RouteNodeAddLink(p, neighborID, neighborAddr, cost, TRUE, probe, ok)

\* RouteNode.Stop: the gRPC server is stopped gracefully; nothing else is done
\* (the cancel function of Node.ctx is called nowhere)
Stop(p) ==
    /\ started[p]
    /\ ~life[p].stopped
    /\ life' = [life EXCEPT ![p].stopped = TRUE]
    /\ lastOp' = Op("Stop", p, <<>>, <<>>, 0, TRUE)
    /\ UNCHANGED <<nodes, edges, routeTable, syncEnabled, inbox, started, handled, crashed, unread>>
    /\ UNCHANGED <<stats, connPool, conns, calls, wire, rm, observed, merge, tasks>>

EdgeConfig(from, to, cost) == [From |-> from, To |-> to, Cost |-> cost]

\* UpdateLink for every edge of the configured list
RECURSIVE ConfiguredEdges(_, _)
ConfiguredEdges(e, cfg) ==
    IF cfg = <<>> THEN e
    ELSE ConfiguredEdges(UpdateLinkEdges(e, Head(cfg).From, Head(cfg).To, Head(cfg).Cost), Tail(cfg))

\* RouteNode.Start: Node.Start creates serf, which reports the local member's join
\* on eventCh, and adds the node itself; the configured edges are loaded; the loops start
Start(p, cfg) ==
    /\ ~started[p]
    /\ Len(inbox[p]) < MaxInbox
    /\ LET n1 == AddNodeNodes(nodes[p], NodeInfo(p, NodeStatusUnknown, <<>>))
           e1 == ConfiguredEdges(AddNodeEdges(edges[p], p), cfg)
       IN  /\ nodes' = [nodes EXCEPT ![p] = n1]
           /\ edges' = [edges EXCEPT ![p] = e1]
           /\ unread' = Unread(p, n1, e1)
    /\ inbox' = [inbox EXCEPT ![p] = Append(@, MemberEvent(EventMemberJoin, p))]
    /\ started' = [started EXCEPT ![p] = TRUE]
    /\ lastOp' = Op("Start", p, <<>>, <<>>, 0, FALSE)
    /\ UNCHANGED <<routeTable, syncEnabled, handled, crashed, extVars>>

\* serf delivers to p an event that comes from a member outside the processes modelled
SerfDelivers(p, ev) ==
    /\ started[p] /\ ~crashed[p]
    /\ Len(inbox[p]) < MaxInbox
    /\ inbox' = [inbox EXCEPT ![p] = Append(@, ev)]
    /\ lastOp' = Op("serf", p, <<>>, <<>>, 0, FALSE)
    /\ UNCHANGED <<nodes, edges, routeTable, syncEnabled, started, handled, crashed, unread, extVars>>

----------------------------------------------------------------------------
(* One route node and its environment *)

\* the ids one route node hears of
NodeIds == {IdA, IdB}

\* the edge lists a node is configured with: the edges of the file it is an end of
ConfigEdgeLists(p) ==
    {<<>>} \cup {<<EdgeConfig(p, to, c)>> : to \in NodeIds \ {p}, c \in TopoCosts}

\* the events of members outside the model
RemoteEvents ==
    {MemberEvent(EventMemberJoin, IdB), MemberEvent(EventMemberLeave, IdB),
     LinkUpdateEvent(IdA, IdB, 1, "update"), LinkUpdateEvent(IdA, IdB, 0, "remove"),
     TopologySyncEvent(IdB, {TopologyLinkEntry(IdA, IdB, 1)}),
     UndecodableEvent(EventLinkUpdate), UndecodableEvent(EventTopologySync)}

\* after RouteNode.Init: nothing started, empty Topology, empty table
InitNode ==
    /\ nodes = [p \in {IdA} |-> NewTopologyNodes]
    /\ edges = [p \in {IdA} |-> NewTopologyEdges]
    /\ routeTable = [p \in {IdA} |-> NewRouteTable]
    /\ syncEnabled = [p \in {IdA} |-> TRUE]
    /\ inbox = [p \in {IdA} |-> <<>>]
    /\ started = [p \in {IdA} |-> FALSE]
    /\ handled = [p \in {IdA} |-> NoneHandled]
    /\ crashed = [p \in {IdA} |-> FALSE]
    /\ unread = [p \in {IdA} |-> FALSE]
    /\ lastOp = NoOp
    /\ InitExt

NextNode ==
    \E p \in Procs :
        \/ \E cfg \in ConfigEdgeLists(p) : Start(p, cfg)
        \/ \E ev \in RemoteEvents : SerfDelivers(p, ev)
        \/ HandleNodeJoin(p)
        \/ HandleNodeLeave(p)
        \/ HandleLinkUpdate(p)
        \/ HandleTopologySync(p)
        \/ HandleUndecodable(p)
        \/ \E order \in RangeOrders(p), ok \in BOOLEAN : PeriodicSync(p, order, ok)
        \/ \E enabled \in BOOLEAN : EnableSync(p, enabled)
        \/ \E to \in NodeIds \ {p}, cost \in TopoCosts, ok \in BOOLEAN :
              RegisterLink(p, p, to, cost, ok)
        \/ \E to \in NodeIds \ {p}, ok \in BOOLEAN : UnregisterLink(p, p, to, ok)
        \/ \E neighbor \in {<<>>, IdB}, address \in {<<>>, HostPort},
              cost \in {0} \cup TopoCosts, autoProbe \in BOOLEAN,
              probe \in ProbeResults, ok \in BOOLEAN :
                ControlAddLink(p, neighbor, address, cost, autoProbe, probe, ok)
        \/ \E cost \in {0} \cup TopoCosts, probe \in ProbeResults, ok \in BOOLEAN :
              SdkAddLink(p, IdB, HostPort, cost, probe, ok)
        \/ Stop(p)

\* one route node from RouteNode.Init on, with the events serf brings it
SpecNode == InitNode /\ [][NextNode]_vars

----------------------------------------------------------------------------
(* One route node whose inputs carry costs of either sign *)

\* the costs an event, a request or a configured edge carries: JSON, protobuf and
\* TOML all carry a negative number as readily as a positive one
SignedCosts == {0 - MaxFloat, 1}

\* the edge lists of a configuration file, costs of either sign
SignedConfigLists(p) == {<<>>} \cup {<<EdgeConfig(p, IdB, c)>> : c \in SignedCosts}

\* the events of members outside the model, costs of either sign
SignedEvents ==
    {MemberEvent(EventMemberJoin, IdB), MemberEvent(EventMemberLeave, IdB)} \cup
    {LinkUpdateEvent(IdA, IdB, c, "update") : c \in SignedCosts} \cup
    {TopologySyncEvent(IdB, {TopologyLinkEntry(IdA, IdB, c)}) : c \in SignedCosts}

NextCosts ==
    \E p \in Procs :
        \/ \E cfg \in SignedConfigLists(p) : Start(p, cfg)
        \/ \E ev \in SignedEvents : SerfDelivers(p, ev)
        \/ HandleNodeJoin(p)
        \/ HandleNodeLeave(p)
        \/ HandleLinkUpdate(p)
        \/ HandleTopologySync(p)
        \/ \E cost \in SignedCosts, autoProbe \in BOOLEAN, probe \in ProbeResults, ok \in BOOLEAN :
              ControlAddLink(p, IdB, HostPort, cost, autoProbe, probe, ok)

\* one route node from RouteNode.Init on, fed costs of either sign
SpecCosts == InitNode /\ [][NextCosts]_vars

----------------------------------------------------------------------------
(* Two route nodes that reconcile by periodic topology-sync *)

\* largest number of links each of the two nodes starts with
MaxSyncLinks == 2

\* the links the two nodes know of: a - a-a, and two whose edge ids are both a-a-a-a
SyncPairs == {<<IdA, IdB>>, <<IdA, IdC>>, <<IdB, IdB>>}

SyncLinkSets == {ls \in SUBSET SyncPairs : Cardinality(ls) <= MaxSyncLinks}

\* processes a and a-a, started, every id registered at both, any links at each
InitSyncFrom(lsA, lsB) ==
    \E fA \in [lsA -> TopoCosts], fB \in [lsB -> TopoCosts] :
        /\ nodes = [p \in {IdA, IdB} |-> DrawnNodes(Ids)]
        /\ edges = (IdA :> DrawnEdges(fA, Ids)) @@ (IdB :> DrawnEdges(fB, Ids))
        /\ routeTable = [p \in {IdA, IdB} |-> NewRouteTable]
        /\ syncEnabled = [p \in {IdA, IdB} |-> TRUE]
        /\ inbox = [p \in {IdA, IdB} |-> <<>>]
        /\ started = [p \in {IdA, IdB} |-> TRUE]
        /\ handled = [p \in {IdA, IdB} |-> NoneHandled]
        /\ crashed = [p \in {IdA, IdB} |-> FALSE]
        /\ unread = [p \in {IdA, IdB} |-> TRUE]
        /\ lastOp = NoOp
        /\ InitExt

InitSync == \E lsA \in SyncLinkSets, lsB \in SyncLinkSets : InitSyncFrom(lsA, lsB)

\* the two nodes start with disjoint edge sets
InitExchange ==
    \E lsA \in SyncLinkSets, lsB \in SyncLinkSets : lsA \cap lsB = {} /\ InitSyncFrom(lsA, lsB)

\* no Topology mutation but the merges of topology-syncs
NextSync ==
    \E p \in Procs :
        \/ \E order \in RangeOrders(p), ok \in BOOLEAN : PeriodicSync(p, order, ok)
        \/ HandleTopologySync(p)

SpecSync == InitSync /\ [][NextSync]_vars

SpecExchange == InitExchange /\ [][NextSync]_vars

\* the eventLoop of a process handles the event on its eventCh; the ticker of the
\* periodic loop keeps firing and serf keeps accepting the event
GossipFair ==
    /\ \A p \in {IdA, IdB} : WF_vars(HandleTopologySync(p))
    /\ \A p \in {IdA, IdB} : SF_vars(\E order \in RangeOrders(p) : PeriodicSync(p, order, TRUE))

\* a tick of periodicSyncLoop whose broadcast is accepted by serf and whose range
\* over the adjacency starts at the key first
PeriodicSyncFrom(p, first) ==
    \E order \in RangeOrders(p) :
        /\ DOMAIN order # {} => order[1] = first
        /\ PeriodicSync(p, order, TRUE)

\* moreover no key is for ever left out as the start of the range over the
\* adjacency (the Go runtime draws the start of each range statement at random;
\* the language leaves the order unspecified)
ShuffledFair ==
    /\ GossipFair
    /\ \A p \in {IdA, IdB}, first \in Ids : SF_vars(PeriodicSyncFrom(p, first))

\* a holds the two links whose edge ids are equal, at cost 1, or a - a-a at any
\* cost; a-a holds a - a-a at any cost, or nothing
InitGossip ==
    \E lsA \in {{<<IdA, IdC>>, <<IdB, IdB>>}, {<<IdA, IdB>>}}, lsB \in SUBSET {<<IdA, IdB>>} :
        /\ InitSyncFrom(lsA, lsB)
        /\ \A x \in lsA \ {<<IdA, IdB>>} : edges[IdA][x[1]][x[2]] = 1

\* the two nodes when every periodic topology-sync is eventually delivered
SpecGossip == InitGossip /\ [][NextSync]_vars /\ GossipFair

\* the same when the range order keeps varying
SpecShuffled == InitGossip /\ [][NextSync]_vars /\ ShuffledFair

----------------------------------------------------------------------------
(* Two route nodes that hold a link and remove it *)

\* the topology-sync of the member a-a-a, which is not among the processes: it
\* lists the link a - a-a as a-a-a held it when it assembled the event
StaleSyncs == {TopologySyncEvent(IdC, {TopologyLinkEntry(IdA, IdB, 1)})}

\* processes a and a-a, started, both holding the link a - a-a at cost 1
InitRemoval ==
    /\ InitSyncFrom({<<IdA, IdB>>}, {<<IdA, IdB>>})
    /\ \A p \in {IdA, IdB} : edges[p][IdA][IdB] = 1

\* the link is unregistered at either end and never registered again; the
\* link-updates and the topology-syncs are handled as they come, the periodic
\* broadcasts are accepted by serf
NextRemoval ==
    \E p \in Procs :
        \/ \E ok \in BOOLEAN : UnregisterLink(p, IdA, IdB, ok)
        \/ HandleLinkUpdate(p)
        \/ \E order \in RangeOrders(p) : PeriodicSync(p, order, TRUE)
        \/ HandleTopologySync(p)
        \/ \E ev \in StaleSyncs : SerfDelivers(p, ev)

SpecRemoval == InitRemoval /\ [][NextRemoval]_vars

----------------------------------------------------------------------------
(* One route node that merges topology-syncs while links are registered *)

\* the topology-syncs of the member a-a
MergedSyncs ==
    {TopologySyncEvent(IdB, {TopologyLinkEntry(IdA, IdB, c)}) : c \in TopoCosts}

\* process a, started, with the NodeInfo of a and a-a; it may hold the link a - a-a
InitMerge ==
    \E ls \in SUBSET {<<IdA, IdB>>} : \E f \in [ls -> TopoCosts] :
        /\ nodes = [p \in {IdA} |-> DrawnNodes(NodeIds)]
        /\ edges = [p \in {IdA} |-> DrawnEdges(f, NodeIds)]
        /\ routeTable = [p \in {IdA} |-> NewRouteTable]
        /\ syncEnabled = [p \in {IdA} |-> TRUE]
        /\ inbox = [p \in {IdA} |-> <<>>]
        /\ started = [p \in {IdA} |-> TRUE]
        /\ handled = [p \in {IdA} |-> NoneHandled]
        /\ crashed = [p \in {IdA} |-> FALSE]
        /\ unread = [p \in {IdA} |-> TRUE]
        /\ lastOp = NoOp
        /\ InitExt

\* the eventLoop goroutine runs handleTopologySync statement by statement and
\* handles the link-updates; the gRPC goroutines serve register_link and the
\* control AddLink meanwhile
NextMerge ==
    \E p \in Procs :
        \/ \E ev \in MergedSyncs : SerfDelivers(p, ev)
        \/ MergeBegins(p)
        \/ \E link \in merge[p].rest : MergeGetCost(p, link)
        \/ MergeUpdateLink(p)
        \/ MergeEnds(p)
        \/ merge[p].at = "idle" /\ HandleLinkUpdate(p)
        \/ \E cost \in TopoCosts, ok \in BOOLEAN : RegisterLink(p, p, IdB, cost, ok)
        \/ \E cost \in TopoCosts, probe \in ProbeResults, ok \in BOOLEAN :
              ControlAddLink(p, IdB, HostPort, cost, FALSE, probe, ok)

SpecMerge == InitMerge /\ [][NextMerge]_vars

----------------------------------------------------------------------------
(* Forward manager *)

\* largest number of packets SendPacket originates
MaxSends == 2
\* largest number of ForwardPacket RPCs nested in one another before the deadline
\* of the outermost (5 s at the SDK) has passed
MaxHops == 3

\* a pb.Packet
Packet(source, destination, payload, visited) ==
    [Source |-> source, Destination |-> destination, NextHop |-> <<>>,
     Payload |-> payload, VisitedNodes |-> visited]

\* the payloads sent
Payloads == {"hi", "yo"}

\* the statistics counters, one more each
IncSent(st) == [st EXCEPT !.PacketsSent = @ + 1]
IncReceived(st) == [st EXCEPT !.PacketsReceived = @ + 1]
IncForwarded(st) == [st EXCEPT !.PacketsForwarded = @ + 1]
IncDelivered(st) == [st EXCEPT !.PacketsDelivered = @ + 1]

\* a drop that is not counted
IncDroppedNot(st) == st

IncDropped(st) == [st EXCEPT !.PacketsDropped = @ + 1]

\* a trace that records a node only once
VisitedOnce(visited, n) ==
    IF \E i \in DOMAIN visited : visited[i] = n THEN visited ELSE Append(visited, n)

\* HandleIncomingPacket: packet.VisitedNodes = append(packet.VisitedNodes, fm.nodeID)
Visited(visited, n) == Append(visited, n)

\* a caller that takes every response for a success
RespSuccessIgnored(success) == TRUE

\* forwardPacket on the response of the next hop: !resp.Success is an error
RespSuccess(success) == success

\* getClient finds a pooled connection to peer in state READY
Reuses(p, peer, cs) ==
    /\ peer \in DOMAIN connPool[p]
    /\ cs[connPool[p][peer]].state = "READY"

\* a getClient that installs the replacement and leaves the stale connection open
ConnsAfterGetClientLeaky(p, peer, cs, dialOk) ==
    IF Reuses(p, peer, cs) \/ ~dialOk THEN cs
    ELSE Append(cs, [owner |-> p, peer |-> peer, state |-> "IDLE", closedBy |-> ""])

\* getClient: the connections after it: a pooled connection that is not READY is
\* closed, and grpc.NewClient makes a new one unless it fails
ConnsAfterGetClient(p, peer, cs, dialOk) ==
    IF Reuses(p, peer, cs) THEN cs
    ELSE LET closed == IF peer \in DOMAIN connPool[p]
                       THEN [cs EXCEPT ![connPool[p][peer]].state = "SHUTDOWN",
                                       ![connPool[p][peer]].closedBy = "getClient"]
                       ELSE cs
         IN  IF dialOk
             THEN Append(closed, [owner |-> p, peer |-> peer, state |-> "IDLE", closedBy |-> ""])
             ELSE closed

\* getClient: the pool after it
PoolAfterGetClient(p, peer, cs, dialOk) ==
    IF Reuses(p, peer, cs) \/ ~dialOk THEN connPool[p]
    ELSE MapPut(connPool[p], peer, Len(cs) + 1)

\* getClient: the connection of the client it returns
ClientConn(p, peer, cs) ==
    IF Reuses(p, peer, cs) THEN connPool[p][peer] ELSE Len(cs) + 1

\* forwardPacket before the RPC: the error it returns, "" when it issues the RPC
LocalError(p, packet, cs, dialOk) ==
    IF packet.Destination \notin DOMAIN routeTable[p] THEN "no route"
    ELSE IF routeTable[p][packet.Destination].NextHop \notin DOMAIN nodes[p]
         THEN "next hop not found"
    ELSE IF ~Reuses(p, routeTable[p][packet.Destination].NextHop, cs) /\ ~dialOk
         THEN "failed to dial"
    ELSE ""

\* a packet starts its way: nothing is known of it yet
NewWire == [NoWire EXCEPT !.kind = "done"]

\* forwardPacket at p, up to the RPC it issues or the error it returns before:
\* s0 are p's counters, cs the connections and w the packet's history when it is
\* entered from SendPacket (name) or from HandleIncomingPacket
ForwardPacket(p, packet, s0, cs, w, dialOk, name) ==
    LET err == LocalError(p, packet, cs, dialOk)
        dials == err \in {"", "failed to dial"}
        hop == routeTable[p][packet.Destination].NextHop
        out == [packet EXCEPT !.NextHop = hop]
    IN  /\ conns' = IF dials THEN ConnsAfterGetClient(p, hop, cs, dialOk) ELSE cs
        /\ connPool' = IF dials
                       THEN [connPool EXCEPT ![p] = PoolAfterGetClient(p, hop, cs, dialOk)]
                       ELSE connPool
        /\ IF err = ""
           THEN /\ stats' = [stats EXCEPT ![p] = s0]
                /\ calls' = Append(calls, [node |-> p, conn |-> ClientConn(p, hop, cs),
                                           packet |-> out])
                /\ wire' = [w EXCEPT !.kind = "request", !.to = hop, !.packet = out,
                                     !.conn = ClientConn(p, hop, cs),
                                     !.accepted = @ \/ Len(calls) = 1]
                /\ lastOp' = [Op(name, p, packet.Destination, hop, 0, TRUE)
                                  EXCEPT !.result = ""]
           ELSE /\ stats' = [stats EXCEPT ![p] = IncDropped(s0)]
                /\ calls' = calls
                /\ wire' = IF calls = <<>>
                           THEN [w EXCEPT !.kind = "done", !.packet = packet, !.failed = TRUE,
                                          !.Success = FALSE, !.Message = err]
                           ELSE [w EXCEPT !.kind = "response", !.packet = packet,
                                          !.to = calls[Len(calls)].node,
                                          !.conn = calls[Len(calls)].conn,
                                          !.failed = TRUE,
                                          !.Success = FALSE, !.Message = err]
                /\ lastOp' = [Op(name, p, packet.Destination, <<>>, 0, FALSE)
                                  EXCEPT !.result = "error"]

\* the packets the nodes of ps have originated so far
RECURSIVE SentBy(_)
SentBy(ps) ==
    IF ps = {} THEN 0
    ELSE LET p == CHOOSE x \in ps : TRUE
         IN  stats[p].PacketsSent + SentBy(ps \ {p})

\* SendPacket: a new packet whose trace holds the source; count it; forwardPacket
SendPacket(p, destination, payload, dialOk) ==
    /\ started[p] /\ ~crashed[p]
    /\ calls = <<>>
    /\ SentBy(Procs) < MaxSends
    /\ ForwardPacket(p, Packet(p, destination, payload, <<p>>), IncSent(stats[p]), conns,
                     [NewWire EXCEPT !.payload = payload], dialOk, "SendPacket")
    /\ UNCHANGED <<nodes, edges, routeTable, syncEnabled, inbox, started, handled, crashed, unread>>
    /\ UNCHANGED <<rm, observed, life, merge, tasks>>

\* NodeServer.ForwardPacket at n: HandleIncomingPacket counts the packet, appends n
\* to the trace, delivers a packet of its own and forwards any other; an error of
\* forwardPacket is answered as a response without success
HandleIncomingPacket(n, dialOk) ==
    /\ wire.kind = "request" /\ wire.to = n
    /\ started[n] /\ ~crashed[n] /\ ~life[n].stopped
    /\ conns[wire.conn].state # "SHUTDOWN"
    /\ Len(calls) < MaxHops
    /\ LET s0 == IncReceived(stats[n])
           cs == [conns EXCEPT ![wire.conn].state = "READY"]
           packet == [wire.packet EXCEPT !.VisitedNodes = Visited(@, n)]
       IN  IF packet.Destination = n
           THEN /\ stats' = [stats EXCEPT ![n] = IncDelivered(s0)]
                /\ conns' = cs
                /\ wire' = [wire EXCEPT !.kind = "response", !.packet = packet,
                                        !.to = calls[Len(calls)].node,
                                        !.Success = TRUE, !.Message = "Packet delivered",
                                        !.delivered = TRUE,
                                        !.accepted = @ \/ Len(calls) = 1]
                /\ lastOp' = [Op("HandleIncomingPacket", n, packet.Destination, <<>>, 0, FALSE)
                                  EXCEPT !.result = "ok"]
                /\ UNCHANGED <<connPool, calls>>
           ELSE ForwardPacket(n, packet, s0, cs, wire, dialOk, "HandleIncomingPacket")
    /\ UNCHANGED <<nodes, edges, routeTable, syncEnabled, inbox, started, handled, crashed, unread>>
    /\ UNCHANGED <<rm, observed, life, merge, tasks>>

\* the innermost forwardPacket under way returns: it counts the packet as
\* forwarded or as dropped; SendPacket returns its result to the sender,
\* HandleIncomingPacket answers it to the caller one hop up
Completes(ok, message) ==
    LET caller == calls[Len(calls)].node
        up == SubSeq(calls, 1, Len(calls) - 1)
    IN  /\ stats' = [stats EXCEPT ![caller] = IF ok THEN IncForwarded(@) ELSE IncDropped(@)]
        /\ calls' = up
        /\ wire' = IF up = <<>>
                   THEN [wire EXCEPT !.kind = "done", !.Success = ok,
                                     !.Message = IF ok THEN "" ELSE message,
                                     !.failed = @ \/ ~ok]
                   ELSE [wire EXCEPT !.kind = "response", !.Success = ok,
                                     !.Message = IF ok THEN "Packet forwarded" ELSE message,
                                     !.to = up[Len(up)].node, !.conn = up[Len(up)].conn,
                                     !.failed = @ \/ ~ok]
        /\ lastOp' = [Op(IF up = <<>> THEN "SendPacket returns" ELSE "HandleIncomingPacket returns",
                         caller, wire.packet.Destination, <<>>, 0, ok)
                          EXCEPT !.result = IF ok THEN "ok" ELSE "error"]

\* the response of the next hop reaches the caller
HandleResponse ==
    /\ wire.kind = "response"
    /\ conns[wire.conn].state # "SHUTDOWN"
    /\ conns' = conns
    /\ Completes(RespSuccess(wire.Success), "forward failed")
    /\ UNCHANGED <<nodes, edges, routeTable, syncEnabled, inbox, started, handled, crashed, unread>>
    /\ UNCHANGED <<connPool, rm, observed, life, merge, tasks>>

\* client.ForwardPacket returns an error: the next hop is not serving, the
\* connection broke or was closed, or the deadline passed; state is the state the
\* connection is left in
RpcFails(state) ==
    /\ wire.kind \in {"request", "response"}
    /\ conns' = [conns EXCEPT ![wire.conn].state = IF @ = "SHUTDOWN" THEN @ ELSE state]
    /\ Completes(FALSE, "failed to forward packet")
    /\ UNCHANGED <<nodes, edges, routeTable, syncEnabled, inbox, started, handled, crashed, unread>>
    /\ UNCHANGED <<connPool, rm, observed, life, merge, tasks>>

\* a Close that closes the connections and keeps the pool
PoolAfterCloseKept(pool) == pool

\* ForwardManager.Close: fm.connPool = make(map[string]*grpc.ClientConn)
PoolAfterClose(pool) == EmptyMap

\* ForwardManager.Close: every pooled connection is closed, the pool is a new map
Close(p) ==
    /\ connPool[p] # EmptyMap
    /\ conns' = [c \in DOMAIN conns |->
                   IF \E peer \in DOMAIN connPool[p] : connPool[p][peer] = c
                   THEN [conns[c] EXCEPT !.state = "SHUTDOWN",
                                         !.closedBy = IF @ = "" THEN "Close" ELSE @]
                   ELSE conns[c]]
    /\ connPool' = [connPool EXCEPT ![p] = PoolAfterClose(@)]
    /\ lastOp' = Op("Close", p, <<>>, <<>>, 0, TRUE)
    /\ UNCHANGED <<nodes, edges, routeTable, syncEnabled, inbox, started, handled, crashed, unread>>
    /\ UNCHANGED <<stats, calls, wire, rm, observed, life, merge, tasks>>

\* the chain a - a-a - a-a-a
ChainView == {<<IdA, IdB>>, <<IdB, IdC>>}

\* the views of the network the middle node may hold instead: the star around a
\* (a-a-a is reached through a), or no link at all
ForwardViews == {ChainView, {<<IdA, IdB>>, <<IdA, IdC>>}, {}}

\* the adjacency of a view, every link at cost 1
ViewEdges(ls) == DrawnEdges([x \in ls |-> 1], Ids)

\* three started nodes that know one another; the ends hold the chain, the middle
\* node holds any of the views, and each holds the route table computed from its view
InitForward ==
    \E view \in ForwardViews :
      \E tA \in ComputeRoutes(IdA, DrawnNodes(Ids), ViewEdges(ChainView)),
         tB \in ComputeRoutes(IdB, DrawnNodes(Ids), ViewEdges(view)),
         tC \in ComputeRoutes(IdC, DrawnNodes(Ids), ViewEdges(ChainView)) :
        /\ nodes = [p \in Ids |-> DrawnNodes(Ids)]
        /\ edges = [p \in Ids |-> ViewEdges(IF p = IdB THEN view ELSE ChainView)]
        /\ routeTable = (IdA :> tA) @@ (IdB :> tB) @@ (IdC :> tC)
        /\ syncEnabled = [p \in Ids |-> TRUE]
        /\ inbox = [p \in Ids |-> <<>>]
        /\ started = [p \in Ids |-> TRUE]
        /\ handled = [p \in Ids |-> NoneHandled]
        /\ crashed = [p \in Ids |-> FALSE]
        /\ unread = [p \in Ids |-> FALSE]
        /\ lastOp = NoOp
        /\ InitExt

\* handleNodeLeave has removed a node from the Topology and has not recomputed yet:
\* a loses its neighbour a-a, or a-a loses its neighbour a-a-a
NodeLeaves == {<<IdA, IdB>>, <<IdB, IdC>>}

\* the nodes whose applications send
Senders == {IdA, IdB}

NextForward ==
    \/ \E p \in Senders, destination \in Ids, payload \in Payloads, dialOk \in BOOLEAN :
          SendPacket(p, destination, payload, dialOk)
    \/ \E n \in Procs, dialOk \in BOOLEAN : HandleIncomingPacket(n, dialOk)
    \/ HandleResponse
    \/ \E state \in {"READY", "TRANSIENT_FAILURE"} : RpcFails(state)
    \/ \E p \in Procs : Close(p)
    \/ \E x \in NodeLeaves : TopoRemoveNode(x[1], x[2])

\* three route nodes forwarding packets along their route tables
SpecForward == InitForward /\ [][NextForward]_vars

----------------------------------------------------------------------------
(* Forward manager: route tables computed from one Topology *)

\* the links there can be among the three nodes
RoutedPairs == {<<IdA, IdB>>, <<IdB, IdC>>, <<IdA, IdC>>}

\* three started nodes that hold the same Topology, any links at positive costs,
\* and each the route table ComputeRoutes returns for it
InitRouted ==
    \E ls \in SUBSET RoutedPairs : \E f \in [ls -> TopoCosts] :
      \E tA \in ComputeRoutes(IdA, DrawnNodes(Ids), DrawnEdges(f, Ids)),
         tB \in ComputeRoutes(IdB, DrawnNodes(Ids), DrawnEdges(f, Ids)),
         tC \in ComputeRoutes(IdC, DrawnNodes(Ids), DrawnEdges(f, Ids)) :
        /\ nodes = [p \in Ids |-> DrawnNodes(Ids)]
        /\ edges = [p \in Ids |-> DrawnEdges(f, Ids)]
        /\ routeTable = (IdA :> tA) @@ (IdB :> tB) @@ (IdC :> tC)
        /\ syncEnabled = [p \in Ids |-> TRUE]
        /\ inbox = [p \in Ids |-> <<>>]
        /\ started = [p \in Ids |-> TRUE]
        /\ handled = [p \in Ids |-> NoneHandled]
        /\ crashed = [p \in Ids |-> FALSE]
        /\ unread = [p \in Ids |-> FALSE]
        /\ lastOp = NoOp
        /\ InitExt

\* every node sends to every node; the Topology and the tables stay as they are
NextRouted ==
    \/ \E p \in Ids, destination \in Ids, dialOk \in BOOLEAN :
          SendPacket(p, destination, "hi", dialOk)
    \/ \E n \in Procs, dialOk \in BOOLEAN : HandleIncomingPacket(n, dialOk)
    \/ HandleResponse
    \/ \E state \in {"READY", "TRANSIENT_FAILURE"} : RpcFails(state)

\* the gRPC server of the next hop serves the request it has received and the
\* caller takes the response it is sent; an RPC may fail, none has to
RoutedFair ==
    /\ WF_vars(\E n \in Procs, dialOk \in BOOLEAN : HandleIncomingPacket(n, dialOk))
    /\ WF_vars(HandleResponse)

SpecRouted == InitRouted /\ [][NextRouted]_vars /\ RoutedFair

----------------------------------------------------------------------------
(* Forward manager: two sends of one node at a time *)

\* a second SendPacket of p, on a goroutine of its own, while a forwardPacket of p
\* waits for its RPC; its destination is a neighbour, which delivers the packet:
\* it counts the packet, takes a client from getClient, and its RPC returns
\* a response (rpcOk) or an error
ConcurrentSend(p, destination, dialOk, rpcOk) ==
    /\ started[p] /\ ~crashed[p]
    /\ \E k \in DOMAIN calls : calls[k].node = p
    /\ SentBy(Procs) < MaxSends
    /\ LET packet == Packet(p, destination, "hi", <<p>>)
           err == LocalError(p, packet, conns, dialOk)
           dials == err \in {"", "failed to dial"}
           hop == routeTable[p][destination].NextHop
           cs == IF dials THEN ConnsAfterGetClient(p, hop, conns, dialOk) ELSE conns
           c == ClientConn(p, hop, conns)
           served == /\ err = "" /\ rpcOk
                     /\ started[hop] /\ ~crashed[hop] /\ ~life[hop].stopped
           s0 == IncSent(stats[p])
       IN  /\ err = "" => hop = destination
           /\ conns' = IF served THEN [cs EXCEPT ![c].state = "READY"] ELSE cs
           /\ connPool' = IF dials
                          THEN [connPool EXCEPT ![p] = PoolAfterGetClient(p, hop, conns, dialOk)]
                          ELSE connPool
           /\ stats' = IF served
                       THEN [stats EXCEPT ![p] = IncForwarded(s0),
                                          ![hop] = IncDelivered(IncReceived(@))]
                       ELSE [stats EXCEPT ![p] = IncDropped(s0)]
           /\ lastOp' = [Op("SendPacket meanwhile", p, destination, <<>>, 0, served)
                             EXCEPT !.result = IF served THEN "ok" ELSE "error"]
    /\ UNCHANGED <<nodes, edges, routeTable, syncEnabled, inbox, started, handled, crashed, unread>>
    /\ UNCHANGED <<calls, wire, rm, observed, life, merge, tasks>>

\* the three nodes hold the chain and the route tables computed from it
InitConcurrent ==
    /\ InitForward
    /\ edges[IdB] = ViewEdges(ChainView)

\* a sends to a-a and to a-a-a, both by way of a-a, and sends a-a a second packet
\* while the first is on its way
NextConcurrent ==
    \/ \E destination \in {IdB, IdC}, dialOk \in BOOLEAN :
          SendPacket(IdA, destination, "hi", dialOk)
    \/ \E n \in Procs, dialOk \in BOOLEAN : HandleIncomingPacket(n, dialOk)
    \/ HandleResponse
    \/ \E state \in {"READY", "TRANSIENT_FAILURE"} : RpcFails(state)
    \/ \E dialOk \in BOOLEAN, rpcOk \in BOOLEAN : ConcurrentSend(IdA, IdB, dialOk, rpcOk)

SpecConcurrent == InitConcurrent /\ [][NextConcurrent]_vars

----------------------------------------------------------------------------
(* The locks of one node *)

\* a call of a sync.RWMutex method fn on the lock of that name
LockOp(fn, lock) == <<fn, lock>>

\* a method that takes the write lock of an object for its whole body
Writes(lock) == <<LockOp("Lock", lock), LockOp("Unlock", lock)>>

\* a method that takes the read lock of an object for its whole body
Reads(lock) == <<LockOp("RLock", lock), LockOp("RUnlock", lock)>>

\* RouteManager.GetRoute: rm.mtx read-held around RouteTable.GetRoute
GetRouteProgram ==
    <<LockOp("RLock", "RouteManager")>> \o Reads("RouteTable")
        \o <<LockOp("RUnlock", "RouteManager")>>

\* forwardPacket on the path that dials: GetRoute, Topology.GetNode, getClient
\* (read lock, then write lock of the pool), the RPC with no lock held, the counter
ForwardProgram ==
    GetRouteProgram \o Reads("Topology") \o Reads("pool") \o Writes("pool") \o Writes("stats")

\* SendPacket: the sent counter, then forwardPacket; a HandleIncomingPacket that
\* forwards does the same with the received counter
SendProgram == Writes("stats") \o ForwardProgram

\* HandleIncomingPacket of a packet for this node: the received counter, then
\* the delivered counter
IncomingPrograms == {Writes("stats") \o Writes("stats")}

\* the change callback RouteNode.Init sets: Topology.String, then RecomputeRoutes
\* with rm.mtx write-held around ComputeRoutes (GetAllNodes, GetNeighbors,
\* AddRoute on the new table) and RouteTable.String; the lock of the table
\* under construction and that of the table in use count as one lock, which
\* lets the goroutines wait for one another at least as often as in the code
CallbackProgram ==
    Reads("Topology") \o <<LockOp("Lock", "RouteManager")>>
        \o Reads("Topology") \o Reads("Topology") \o Writes("RouteTable")
        \o Reads("RouteTable") \o <<LockOp("Unlock", "RouteManager")>>

\* triggerTopologyChange: the callback is copied under ts.mtx and called after
\* the lock is released
TriggerProgram == Reads("TopologySync") \o CallbackProgram

\* a handler that triggers the callback before UpdateLink has released the
\* Topology lock
EventProgramUnderLock ==
    <<LockOp("Lock", "Topology")>> \o TriggerProgram \o <<LockOp("Unlock", "Topology")>>

\* handleLinkUpdate: UpdateLink or RemoveLink, then triggerTopologyChange
EventProgram == Writes("Topology") \o TriggerProgram

\* a tick of periodicSyncLoop: broadcastFullTopology reads syncEnabled and the
\* adjacency, the loop then reads syncInterval
PeriodicProgram == Reads("TopologySync") \o Reads("Topology") \o Reads("TopologySync")

\* the control RPCs: EnableSync (EnableSync, IsSyncEnabled), and AddLink
\* (AddNode, UpdateLink, then RegisterLink: UpdateLink and the trigger)
ControlPrograms ==
    {Writes("TopologySync") \o Reads("TopologySync"),
     Writes("Topology") \o Writes("Topology") \o Writes("Topology") \o TriggerProgram}

\* the calls a goroutine runs
Programs(t) ==
    IF t = "send" THEN {SendProgram}
    ELSE IF t = "incoming" THEN IncomingPrograms
    ELSE IF t = "event" THEN {EventProgram}
    ELSE IF t = "periodic" THEN {PeriodicProgram}
    ELSE ControlPrograms

\* the lock operation t is to do next, none when its call is over
NextLockOp(t) ==
    IF tasks[t].pc < Len(tasks[t].prog) THEN tasks[t].prog[tasks[t].pc + 1] ELSE LockOp("", "")

\* the operations by which t took a lock that it has not released since
Holding(t, lock) ==
    {i \in 1 .. tasks[t].pc :
        /\ tasks[t].prog[i][2] = lock
        /\ tasks[t].prog[i][1] \in {"Lock", "RLock"}
        /\ ~\E j \in (i + 1) .. tasks[t].pc :
              tasks[t].prog[j][2] = lock /\ tasks[t].prog[j][1] \in {"Unlock", "RUnlock"}}

Holds(t, lock) == Holding(t, lock) # {}

HoldsWrite(t, lock) == \E i \in Holding(t, lock) : tasks[t].prog[i][1] = "Lock"

\* t has called Lock on the lock and has not got it yet
WaitsToWrite(t, lock) == tasks[t].waiting /\ NextLockOp(t) = LockOp("Lock", lock)

\* sync.RWMutex: Lock returns when nobody holds the lock; RLock returns when no
\* writer holds it and no call of Lock is waiting for it
Granted(t) ==
    LET lock == NextLockOp(t)[2]
    IN  IF NextLockOp(t)[1] = "Lock"
        THEN tasks[t].waiting /\ \A u \in Tasks : ~Holds(u, lock)
        ELSE /\ NextLockOp(t)[1] = "RLock"
             /\ \A u \in Tasks : ~HoldsWrite(u, lock) /\ ~WaitsToWrite(u, lock)

\* the locks leave the rest of the node as it is
LockStep ==
    UNCHANGED <<nodes, edges, routeTable, syncEnabled, inbox, started, handled, crashed,
                unread, lastOp, stats, connPool, conns, calls, wire, rm, observed, life, merge>>

\* the goroutine enters one of its calls
TaskBegins(t, prog) ==
    /\ tasks[t] = NoTask
    /\ tasks' = [tasks EXCEPT ![t] = [NoTask EXCEPT !.prog = prog]]
    /\ LockStep

\* the goroutine calls Lock: from now on new readers wait behind it
TaskCallsLock(t) ==
    /\ NextLockOp(t)[1] = "Lock" /\ ~tasks[t].waiting
    /\ tasks' = [tasks EXCEPT ![t].waiting = TRUE]
    /\ LockStep

\* Lock or RLock returns
TaskAcquires(t) ==
    /\ Granted(t)
    /\ tasks' = [tasks EXCEPT ![t].pc = @ + 1, ![t].waiting = FALSE]
    /\ LockStep

\* Unlock or RUnlock
TaskReleases(t) ==
    /\ NextLockOp(t)[1] \in {"Unlock", "RUnlock"}
    /\ tasks' = [tasks EXCEPT ![t].pc = @ + 1]
    /\ LockStep

\* the call returns
TaskReturns(t) ==
    /\ tasks[t].prog # <<>> /\ tasks[t].pc = Len(tasks[t].prog)
    /\ tasks' = [tasks EXCEPT ![t] = NoTask]
    /\ LockStep

NextLocks ==
    \E t \in Tasks :
        \/ \E prog \in Programs(t) : TaskBegins(t, prog)
        \/ TaskCallsLock(t)
        \/ TaskAcquires(t)
        \/ TaskReleases(t)
        \/ TaskReturns(t)

\* one started node whose goroutines run their calls side by side
SpecLocks == InitNode /\ [][NextLocks]_vars

----------------------------------------------------------------------------
(* Route manager: readers of the route table while RecomputeRoutes runs *)

\* a recomputation that fills the table the readers use, route by route
PublishedInPlace(table, building) == building

\* ComputeRoutes fills a table of its own (NewRouteTable, AddRoute); the table
\* the readers use stays as it is until RecomputeRoutes assigns rm.routeTable
Published(table, building) == table

\* RouteTable.GetRoute and RouteTable.GetNextHop on a table: the entry of
\* destination, none when the route is not found
Lookup(table, destination, fn) ==
    IF destination \in DOMAIN table
    THEN (destination :> (IF fn = "GetRoute" THEN <<table[destination]>>
                          ELSE table[destination].NextHop))
    ELSE EmptyMap

\* RecomputeRoutes takes rm.mtx for writing, which waits for the readers that hold
\* it, and ComputeRoutes reads the Topology
RecomputeBegins(p) ==
    /\ ~crashed[p]
    /\ rm[p].lock = "free"
    /\ ~(observed.pending /\ observed.proc = p)
    /\ \E table \in ComputeRoutes(p, nodes[p], edges[p]) :
          rm' = [rm EXCEPT ![p] = [NewRouteManager EXCEPT
                                       !.lock = "writer", !.building = NewRouteTable,
                                       !.target = table, !.old = routeTable[p]]]
    /\ unread' = [unread EXCEPT ![p] = FALSE]
    /\ lastOp' = Op("RecomputeRoutes begins", p, <<>>, <<>>, 0, FALSE)
    /\ UNCHANGED <<nodes, edges, routeTable, syncEnabled, inbox, started, handled, crashed>>
    /\ UNCHANGED <<stats, connPool, conns, calls, wire, observed, life, merge, tasks>>

\* ComputeRoutes adds the route of one more destination to its table
RecomputeAddRoute(p, destination) ==
    /\ rm[p].lock = "writer"
    /\ destination \in (DOMAIN rm[p].target) \ (DOMAIN rm[p].building)
    /\ rm' = [rm EXCEPT ![p].building = MapPut(@, destination, rm[p].target[destination])]
    /\ routeTable' = [routeTable EXCEPT ![p] = Published(@, rm'[p].building)]
    /\ lastOp' = Op("AddRoute", p, destination, <<>>, 0, FALSE)
    /\ UNCHANGED <<nodes, edges, syncEnabled, inbox, started, handled, crashed, unread>>
    /\ UNCHANGED <<stats, connPool, conns, calls, wire, observed, life, merge, tasks>>

\* RecomputeRoutes assigns the finished table to rm.routeTable and releases rm.mtx
RecomputeSwaps(p) ==
    /\ rm[p].lock = "writer"
    /\ DOMAIN rm[p].building = DOMAIN rm[p].target
    /\ routeTable' = [routeTable EXCEPT ![p] = rm[p].building]
    /\ rm' = [rm EXCEPT ![p].lock = "free"]
    /\ lastOp' = Op("RecomputeRoutes", p, <<>>, <<>>, 0, TRUE)
    /\ UNCHANGED <<nodes, edges, syncEnabled, inbox, started, handled, crashed, unread>>
    /\ UNCHANGED <<stats, connPool, conns, calls, wire, observed, life, merge, tasks>>

\* GetRoute or GetNextHop (fn) is called at p: it asks for rm.mtx for reading
GetRouteCalls(p, destination, fn) ==
    /\ ~observed.pending
    /\ observed' = [taken |-> FALSE, pending |-> TRUE, fn |-> fn, proc |-> p,
                    dest |-> destination, got |-> EmptyMap,
                    during |-> rm[p].lock = "writer",
                    old |-> routeTable[p],
                    new |-> IF rm[p].lock = "writer" THEN rm[p].target ELSE routeTable[p]]
    /\ lastOp' = Op(fn, p, destination, <<>>, 0, FALSE)
    /\ UNCHANGED <<nodes, edges, routeTable, syncEnabled, inbox, started, handled, crashed, unread>>
    /\ UNCHANGED <<stats, connPool, conns, calls, wire, rm, life, merge, tasks>>

\* the call holds rm.mtx for reading, which no writer holds then, looks the
\* destination up in rm.routeTable and returns
GetRouteReturns(p) ==
    /\ observed.pending /\ observed.proc = p
    /\ rm[p].lock = "free"
    /\ observed' = [observed EXCEPT !.taken = TRUE, !.pending = FALSE,
                                    !.got = Lookup(routeTable[p], observed.dest, observed.fn)]
    /\ lastOp' = Op(observed.fn, p, observed.dest, <<>>, 0, TRUE)
    /\ UNCHANGED <<nodes, edges, routeTable, syncEnabled, inbox, started, handled, crashed, unread>>
    /\ UNCHANGED <<stats, connPool, conns, calls, wire, rm, life, merge, tasks>>

\* one started node that knows a, a-a and a-a-a and no link yet
InitRead ==
    /\ nodes = [p \in {IdA} |-> DrawnNodes(Ids)]
    /\ edges = [p \in {IdA} |-> DrawnEdges(EmptyMap, Ids)]
    /\ routeTable = [p \in {IdA} |-> NewRouteTable]
    /\ syncEnabled = [p \in {IdA} |-> TRUE]
    /\ inbox = [p \in {IdA} |-> <<>>]
    /\ started = [p \in {IdA} |-> TRUE]
    /\ handled = [p \in {IdA} |-> NoneHandled]
    /\ crashed = [p \in {IdA} |-> FALSE]
    /\ unread = [p \in {IdA} |-> FALSE]
    /\ lastOp = NoOp
    /\ InitExt

NextRead ==
    \E p \in Procs :
        \/ RecomputeBegins(p)
        \/ \E destination \in Ids : RecomputeAddRoute(p, destination)
        \/ RecomputeSwaps(p)
        \/ \E destination \in Ids, fn \in {"GetRoute", "GetNextHop"} :
              GetRouteCalls(p, destination, fn)
        \/ GetRouteReturns(p)
        \/ \E pr \in ChainView : TopoUpdateLink(p, pr[1], pr[2], 1)
        \/ \E pr \in ChainView : TopoRemoveLink(p, pr[1], pr[2])

\* one route manager: recomputations, readers and Topology writes interleaved
SpecRead == InitRead /\ [][NextRead]_vars

----------------------------------------------------------------------------
(* Route manager: ComputeRoutes reading a Topology that other goroutines write *)

\* the adjacency ComputeRoutes sees at p now: the entries of neighborCache, and the
\* Topology for every node it has not asked for yet
SeenAdjacency(p) ==
    [x \in (DOMAIN rm[p].neighborCache) \cup (DOMAIN edges[p]) |->
        IF x \in DOMAIN rm[p].neighborCache THEN rm[p].neighborCache[x] ELSE edges[p][x]]

\* RecomputeRoutes takes rm.mtx for writing; ComputeRoutes reads GetAllNodes,
\* sets every distance and enqueues the source
ComputeBegins(p) ==
    /\ ~crashed[p]
    /\ rm[p].lock = "free"
    /\ rm' = [rm EXCEPT ![p] = [NewRouteManager EXCEPT
                                    !.lock = "writer", !.old = routeTable[p],
                                    !.spf = SPFInit(p, nodes[p]),
                                    !.during = {edges[p]}]]
    /\ unread' = [unread EXCEPT ![p] = FALSE]
    /\ lastOp' = Op("RecomputeRoutes begins", p, <<>>, <<>>, 0, FALSE)
    /\ UNCHANGED <<nodes, edges, routeTable, syncEnabled, inbox, started, handled, crashed>>
    /\ UNCHANGED <<stats, connPool, conns, calls, wire, observed, life, merge, tasks>>

\* one iteration of ComputeRoutes' main loop: an item is dequeued; unless it is
\* out of date the neighbours of its node are relaxed, which GetNeighbors reads
\* from the Topology as it is now when neighborCache does not hold them
ComputeDequeues(p, item) ==
    /\ rm[p].lock = "writer"
    /\ item \in SPFDequeue(rm[p].spf.pq)
    /\ LET cur == item[1]
           reads == /\ ~(item[2] > MapGet0(rm[p].spf.distance, cur))
                    /\ cur \notin DOMAIN rm[p].neighborCache
       IN  rm' = [rm EXCEPT ![p].spf = SPFStep(@, item, p, SeenAdjacency(p)),
                            ![p].neighborCache =
                                IF reads THEN MapPut(@, cur, GetNeighbors(edges[p], cur)) ELSE @]
    /\ lastOp' = Op("Dequeue", p, item[1], <<>>, item[2], FALSE)
    /\ UNCHANGED <<nodes, edges, routeTable, syncEnabled, inbox, started, handled, crashed, unread>>
    /\ UNCHANGED <<stats, connPool, conns, calls, wire, observed, life, merge, tasks>>

\* the queue is empty: ComputeRoutes collects the routes, RecomputeRoutes assigns
\* the table to rm.routeTable and releases rm.mtx
ComputeSwaps(p) ==
    /\ rm[p].lock = "writer"
    /\ rm[p].spf.pq = {}
    /\ SPFReturns(rm[p].spf, p)
    /\ routeTable' = [routeTable EXCEPT ![p] = SPFCollect(rm[p].spf, p)]
    /\ rm' = [rm EXCEPT ![p].lock = "free", ![p].target = routeTable'[p]]
    /\ lastOp' = Op("RecomputeRoutes", p, <<>>, <<>>, 0, TRUE)
    /\ UNCHANGED <<nodes, edges, syncEnabled, inbox, started, handled, crashed, unread>>
    /\ UNCHANGED <<stats, connPool, conns, calls, wire, observed, life, merge, tasks>>

\* the adjacencies the Topology has held since ComputeRoutes began, e now among them
During(p, e) == [rm EXCEPT ![p].during = IF rm[p].lock = "writer" THEN @ \cup {e} ELSE @]

\* Topology.UpdateLink called by another goroutine (the event loop, a gRPC
\* handler): Topology.mtx is all it takes
ConcurrentUpdateLink(p, from, to, cost) ==
    /\ edges' = [edges EXCEPT ![p] = UpdateLinkEdges(@, from, to, cost)]
    /\ rm' = During(p, edges'[p])
    /\ unread' = Unread(p, nodes[p], edges'[p])
    /\ lastOp' = Op("UpdateLink", p, from, to, cost, FALSE)
    /\ UNCHANGED <<nodes, routeTable, syncEnabled, inbox, started, handled, crashed>>
    /\ UNCHANGED <<stats, connPool, conns, calls, wire, observed, life, merge, tasks>>

\* Topology.RemoveLink called by another goroutine
ConcurrentRemoveLink(p, from, to) ==
    /\ edges' = [edges EXCEPT ![p] = RemoveLinkEdges(@, from, to)]
    /\ rm' = During(p, edges'[p])
    /\ unread' = Unread(p, nodes[p], edges'[p])
    /\ lastOp' = Op("RemoveLink", p, from, to, 0, FALSE)
    /\ UNCHANGED <<nodes, routeTable, syncEnabled, inbox, started, handled, crashed>>
    /\ UNCHANGED <<stats, connPool, conns, calls, wire, observed, life, merge, tasks>>

\* the links the other goroutines write, all at cost 1
ComputeLinks == ChainView

NextCompute ==
    \E p \in Procs :
        \/ ComputeBegins(p)
        \/ \E item \in rm[p].spf.pq : ComputeDequeues(p, item)
        \/ ComputeSwaps(p)
        \/ \E pr \in ComputeLinks : ConcurrentUpdateLink(p, pr[1], pr[2], 1)
        \/ \E pr \in ComputeLinks : ConcurrentRemoveLink(p, pr[1], pr[2])

\* one route manager whose recomputations run while the Topology is written
SpecCompute == InitRead /\ [][NextCompute]_vars

----------------------------------------------------------------------------
(* Shortest paths by enumeration, for comparison with ComputeRoutes *)

\* consecutive nodes of q are linked in e
Linked(e, q) == \A i \in 1 .. Len(q) - 1 : HasCost(e, q[i], q[i + 1])

\* the costs of the simple paths from at to d in e that visit, after at, only
\* nodes of transit not yet seen
RECURSIVE PathCosts(_, _, _, _, _)
PathCosts(e, transit, at, d, seen) ==
    IF at = d THEN {0}
    ELSE UNION {{GetCost(e, at, x) + c : c \in PathCosts(e, transit, x, d, seen \cup {x})} :
                   x \in {y \in DOMAIN GetNeighbors(e, at) : y \in transit /\ y \notin seen}}

\* the costs of the simple paths from s to d whose nodes after s all lie in transit
CostsVia(e, transit, s, d) == PathCosts(e, transit, s, d, {s})

\* the least element of a non-empty set of costs
Least(costs) == CHOOSE c \in costs : \A other \in costs : c <= other

\* every id the Topology mentions: NodeInfo keys, adjacency keys, link endpoints
Mentioned(n, e) == (DOMAIN n) \cup (DOMAIN e) \cup UNION {DOMAIN e[x] : x \in DOMAIN e}

\* {destination, cost} pairs of a table
CostPairs(tbl) == {<<d, tbl[d].Cost>> : d \in DOMAIN tbl}

\* the shortest-path costs from s to the nodes of targets, paths running through transit
ShortestPairs(e, transit, targets, s) ==
    {<<d, Least(CostsVia(e, transit, s, d))>> :
        d \in {x \in targets \ {s} : CostsVia(e, transit, s, x) # {}}}

\* the table of p is what the last call, a recomputation, computed from p's Topology
Computed(p) == lastOp.proc = p /\ lastOp.fired /\ ~unread[p] /\ ~crashed[p]

\* C1 as stated: the table of a computation holds exactly the shortest-path costs
\* from the source to every node reachable from it other than itself.
C1_AsClaimed ==
    \A p \in Procs : Computed(p) =>
        CostPairs(routeTable[p]) =
            ShortestPairs(edges[p], Mentioned(nodes[p], edges[p]),
                          Mentioned(nodes[p], edges[p]), p)

\* what the table does hold when no cost is negative (SpecSPFWide): the registered
\* nodes (those with a NodeInfo) other than the source that the source reaches along
\* links through registered nodes only, each with the least cost of such a path
RegisteredShortestCosts ==
    \A p \in Procs : Computed(p) =>
        CostPairs(routeTable[p]) =
            ShortestPairs(edges[p], GetAllNodes(nodes[p]), GetAllNodes(nodes[p]), p)

\* C1 witness: nodes A, B, C registered, the only link A-B; from A the table holds B alone
C1_Witness ==
    /\ Computed(IdA)
    /\ GetAllNodes(nodes[IdA]) = Ids
    /\ HasCost(edges[IdA], IdA, IdB)
    /\ ~HasCost(edges[IdA], IdA, IdC) /\ ~HasCost(edges[IdA], IdB, IdC)
    /\ CostPairs(routeTable[IdA]) = {<<IdB, MaxCost>>}

\* C2 as stated: for every route (d, n, c) of a computation from s, n is a direct
\* neighbour of s and the shortest-path cost from n to d in the Topology is c minus
\* the cost of the link s-n.
C2_AsClaimed ==
    \A p \in Procs : Computed(p) =>
        \A d \in DOMAIN routeTable[p] :
            LET r == routeTable[p][d]
                n == r.NextHop
                all == CostsVia(edges[p], Mentioned(nodes[p], edges[p]), n, d)
            IN  /\ HasCost(edges[p], p, n)
                /\ all # {}
                /\ Least(all) = r.Cost - GetCost(edges[p], p, n)

\* what does hold of the next hop when no cost is negative (SpecSPFWide): n is a
\* direct neighbour of s and the least cost of a path from n to d through registered
\* nodes (those with a NodeInfo) is c minus the cost of the link s-n
NextHopConsistentRegistered ==
    \A p \in Procs : Computed(p) =>
        \A d \in DOMAIN routeTable[p] :
            LET r == routeTable[p][d]
                n == r.NextHop
                viaReg == CostsVia(edges[p], GetAllNodes(nodes[p]), n, d)
            IN  /\ HasCost(edges[p], p, n)
                /\ viaReg # {}
                /\ Least(viaReg) = r.Cost - GetCost(edges[p], p, n)

\* C2 witness: from A the route to D goes by B at cost 2, the direct link A-D being
\* dearer; B is a neighbour of A at cost 1 and reaches D at cost 1
C2_Witness ==
    /\ Computed(IdA)
    /\ GetCost(edges[IdA], IdA, IdB) = 1
    /\ GetCost(edges[IdA], IdA, IdD) = MaxCost
    /\ IdD \in DOMAIN routeTable[IdA]
    /\ routeTable[IdA][IdD].NextHop = IdB
    /\ routeTable[IdA][IdD].Cost = 2
    /\ Least(CostsVia(edges[IdA], GetAllNodes(nodes[IdA]), IdB, IdD)) = 1

\* C5 as stated: every route of a computation from s has a destination other than s, a cost
\* >= 0, a next hop that is a direct neighbour of s, and a path that begins with s,
\* has the next hop second, ends with the destination and follows links.
C5_RouteWellFormed ==
    \A p \in Procs : Computed(p) =>
        \A d \in DOMAIN routeTable[p] :
            LET r == routeTable[p][d]
            IN  /\ r.Destination = d /\ d # p
                /\ r.Cost >= 0
                /\ HasCost(edges[p], p, r.NextHop)
                /\ Len(r.Path) >= 2
                /\ r.Path[1] = p
                /\ r.Path[2] = r.NextHop
                /\ r.Path[Len(r.Path)] = d
                /\ Linked(edges[p], r.Path)

\* C5 witness: the triangle A-B:1, B-C:1 with a dearer direct link A-C gives, from
\* A to C, cost 2, next hop B, path [A, B, C]
C5_Witness ==
    /\ Computed(IdA)
    /\ GetCost(edges[IdA], IdA, IdB) = 1
    /\ GetCost(edges[IdA], IdB, IdC) = 1
    /\ GetCost(edges[IdA], IdA, IdC) = MaxCost
    /\ IdC \in DOMAIN routeTable[IdA]
    /\ routeTable[IdA][IdC] = Route(IdC, IdB, 2, <<IdA, IdB, IdC>>)

----------------------------------------------------------------------------
(* Topology invariants *)

\* get_cost(a, b) is present iff get_cost(b, a) is, with the same cost
Symmetric(e) ==
    \A a \in Ids, b \in Ids :
        /\ HasCost(e, a, b) <=> HasCost(e, b, a)
        /\ GetCost(e, a, b) = GetCost(e, b, a)

\* C3: in every state of a Topology reached by add_node, remove_node, update_link and
\* remove_link in any order, get_cost(a, b) is present iff get_cost(b, a) is, with the
\* same cost; right after update_link(a, b, c) both are present and equal c.
C3_SymmetricLinks ==
    /\ \A p \in Procs : Symmetric(edges[p])
    /\ lastOp.op = "UpdateLink" =>
          LET e == edges[lastOp.proc]
          IN  /\ HasCost(e, lastOp.a, lastOp.b) /\ GetCost(e, lastOp.a, lastOp.b) = lastOp.cost
              /\ HasCost(e, lastOp.b, lastOp.a) /\ GetCost(e, lastOp.b, lastOp.a) = lastOp.cost

\* C3 witness: right after update_link(A, B, c) on a Topology that has seen a
\* remove_node of B: both directions hold c, and B has no NodeInfo
C3_Witness ==
    /\ lastOp.op = "UpdateLink" /\ lastOp.a = IdA /\ lastOp.b = IdB
    /\ lastOp.cost = MaxCost
    /\ GetCost(edges[IdA], IdA, IdB) = MaxCost
    /\ GetCost(edges[IdA], IdB, IdA) = MaxCost
    /\ HasCost(edges[IdA], IdB, IdC)
    /\ ~HasNode(nodes[IdA], IdB)

\* C4: after remove_node(a), get_cost(x, a) and get_cost(a, x) are absent for every x,
\* a has no NodeInfo and no adjacency entry, and every link not incident to a keeps
\* its cost.
C4_RemoveNodeSweeps ==
    [][\A p \in Procs, a \in Ids :
          TopoRemoveNode(p, a) =>
              /\ \A x \in Ids : ~HasCost(edges'[p], x, a) /\ ~HasCost(edges'[p], a, x)
              /\ ~HasNode(nodes'[p], a)
              /\ a \notin DOMAIN edges'[p]
              /\ \A x \in Ids \ {a}, y \in Ids \ {a} :
                    /\ HasCost(edges'[p], x, y) <=> HasCost(edges[p], x, y)
                    /\ GetCost(edges'[p], x, y) = GetCost(edges[p], x, y)]_vars

\* C4 witness: right after remove_node(B), the link A-C is still there at its cost
\* and B, which had a link to itself removed with it, is gone
C4_Witness ==
    /\ lastOp.op = "RemoveNode" /\ lastOp.a = IdB
    /\ GetCost(edges[IdA], IdA, IdC) = MaxCost
    /\ HasNode(nodes[IdA], IdA)
    /\ ~HasNode(nodes[IdA], IdB)
    /\ IdB \notin DOMAIN edges[IdA]

----------------------------------------------------------------------------
(* Recomputation after a mutation *)

\* C6, in the form a finite run refutes: a started process with no event left on
\* eventCh has recomputed its routes since the last change of its Topology (which
\* no later step of the process would otherwise read).
C6_AsClaimed ==
    \A p \in Procs : (started[p] /\ ~crashed[p] /\ inbox[p] = <<>>) => ~unread[p]

\* C6 witness: a link update gossiped to A has been handled, the link is in the
\* Topology and the table computed from it holds the route
C6_Witness ==
    /\ lastOp.op = "handleLinkUpdate" /\ lastOp.proc = IdA
    /\ ~unread[IdA]
    /\ HasNode(nodes[IdA], IdB)
    /\ GetCost(edges[IdA], IdA, IdB) = 1
    /\ IdB \in DOMAIN routeTable[IdA]
    /\ routeTable[IdA][IdB].Cost = 1

----------------------------------------------------------------------------
(* Reconciliation by topology-sync *)

\* the links of an adjacency: unordered pairs with their costs
LinksOf(e) ==
    {<<{pr[1], pr[2]}, e[pr[1]][pr[2]]>> : pr \in {x \in Ids \X Ids : HasCost(e, x[1], x[2])}}

C8_AsClaimed ==
    (handled[IdA][IdB] = 1 /\ handled[IdB][IdA] = 1) =>
        LinksOf(edges[IdA]) = LinksOf(edges[IdB])

\* C8 witness: A started with the link a - a-a, B with the link a - a-a-a; after
\* one topology-sync each way both hold both links
C8_Witness ==
    /\ handled[IdA][IdB] = 1 /\ handled[IdB][IdA] = 1
    /\ LinksOf(edges[IdA]) = {<<{IdA, IdB}, 1>>, <<{IdA, IdC}, MaxCost>>}
    /\ LinksOf(edges[IdB]) = LinksOf(edges[IdA])

\* A holds the link A-B at the high cost and B holds it at cost 1
C9_Differ ==
    /\ HasCost(edges[IdA], IdA, IdB) /\ GetCost(edges[IdA], IdA, IdB) = MaxCost
    /\ HasCost(edges[IdB], IdA, IdB) /\ GetCost(edges[IdB], IdA, IdB) = 1

\* this step is the merge by p of a topology-sync sent by q
C9_Delivered(p, q) ==
    /\ lastOp'.op = "handleTopologySync"
    /\ lastOp'.proc = p
    /\ lastOp'.event.NodeID = q

\* C9 as stated: if A holds A-B at the high cost and B holds it at 1, then after one
\* topology-sync delivered in either direction both hold it at 1.
C9_AsClaimed ==
    [][(C9_Differ /\ (C9_Delivered(IdA, IdB) \/ C9_Delivered(IdB, IdA))) =>
          /\ GetCost(edges'[IdA], IdA, IdB) = 1
          /\ GetCost(edges'[IdB], IdA, IdB) = 1]_vars

\* C9 amended: if A holds A-B at the high cost and B holds it at 1, then after B's
\* topology-sync is delivered to A both hold it at 1, and after A's is delivered to
\* B, B still holds it at 1 and A still at the high cost.
C9_MinCostAtReceiver ==
    [][/\ (C9_Differ /\ C9_Delivered(IdA, IdB)) =>
            /\ GetCost(edges'[IdA], IdA, IdB) = 1
            /\ GetCost(edges'[IdB], IdA, IdB) = 1
       /\ (C9_Differ /\ C9_Delivered(IdB, IdA)) =>
            /\ GetCost(edges'[IdA], IdA, IdB) = MaxCost
            /\ GetCost(edges'[IdB], IdA, IdB) = 1]_vars

\* C9 witness: A has just merged B's topology-sync and logs that it lowered the
\* link A-B from the high cost to 1; both hold it at 1
C9_Witness ==
    /\ lastOp.op = "handleTopologySync" /\ lastOp.proc = IdA
    /\ lastOp.event.NodeID = IdB
    /\ \E x \in lastOp.lowered : /\ {x[1].From, x[1].To} = {IdA, IdB}
                           /\ x[1].Cost = 1
                           /\ x[2] = MaxCost
    /\ GetCost(edges[IdA], IdA, IdB) = 1
    /\ GetCost(edges[IdB], IdA, IdB) = 1

\* C10: right after a process has processed a TopologySyncEvent, processing the
\* same event again adopts no link, changes no edge and fires no notification; and
\* a processing fires the notification only when it adopts a link, which changes
\* the edges.
C10_SyncIdempotent ==
    /\ [](lastOp.op = "handleTopologySync" =>
            LET e == edges[lastOp.proc]
            IN  /\ MergeLinks(e, lastOp.event.Links) = e
                /\ ~MergeChanged(e, lastOp.event.Links))
    /\ [][lastOp'.op = "handleTopologySync" =>
            (lastOp'.fired <=> edges'[lastOp'.proc] # edges[lastOp'.proc])]_vars

\* C10 witness: A has processed a second topology-sync of B, one that carries
\* links, and nothing was adopted: no notification
C10_Witness ==
    /\ lastOp.op = "handleTopologySync" /\ lastOp.proc = IdA
    /\ lastOp.event.NodeID = IdB
    /\ lastOp.event.Links # {}
    /\ handled[IdA][IdB] = 2
    /\ ~lastOp.fired

----------------------------------------------------------------------------
(* C20 *)

\* the step is handleTopologySync at p taking an event of node q
C20_Handles(p, q) ==
    /\ lastOp'.op = "handleTopologySync"
    /\ lastOp'.proc = p
    /\ lastOp'.event.NodeID = q
    /\ inbox[p] # <<>>
    /\ inbox'[p] = Tail(inbox[p])

\* C20: when a node handles a topology-sync event of another node, each incoming
\* link that is absent locally is adopted at the incoming cost, each link whose
\* local cost is strictly higher takes the incoming cost, and each link whose
\* local cost is equal or lower keeps its local cost; an event of the node's own
\* id changes neither its Topology nor its route table
C20_MergeRule ==
    [][\A p \in Procs :
          /\ \A q \in Ids \ {p} :
                C20_Handles(p, q) =>
                  \A link \in lastOp'.event.Links :
                    /\ HasCost(edges'[p], link.From, link.To)
                    /\ GetCost(edges'[p], link.From, link.To) =
                          IF ~HasCost(edges[p], link.From, link.To) THEN link.Cost
                          ELSE IF GetCost(edges[p], link.From, link.To) > link.Cost THEN link.Cost
                          ELSE GetCost(edges[p], link.From, link.To)
          /\ C20_Handles(p, p) =>
                /\ nodes'[p] = nodes[p]
                /\ edges'[p] = edges[p]
                /\ routeTable'[p] = routeTable[p]]_vars

\* C20 witness: a node has merged an event of the other node in which one link
\* replaced a dearer local cost and another, dearer than the local cost, was kept out
C20_Witness ==
    /\ lastOp.op = "handleTopologySync"
    /\ lastOp.event.NodeID # lastOp.proc
    /\ lastOp.lowered # {}
    /\ \E link \in lastOp.event.Links :
          link.Cost > GetCost(edges[lastOp.proc], link.From, link.To)

----------------------------------------------------------------------------
(* C16 *)

\* the edges of e other than the link between x and y, each with its cost
C16_EdgesBut(e, x, y) ==
    {<<pr[1], pr[2], GetCost(e, pr[1], pr[2])>> :
        pr \in {qr \in (DOMAIN e) \X AdjKeys(e) :
                  HasCost(e, qr[1], qr[2]) /\ {qr[1], qr[2]} # {x, y}}}

\* C16: adding a node whose id already exists, from a member-join or from control
\* AddLink, replaces the stored NodeInfo and leaves every edge unchanged (control
\* AddLink goes on to set the one link self - neighbour when its probe succeeds;
\* every other edge is unchanged then)
C16_AddNodeKeepsEdges ==
    [][\A p \in Procs :
          /\ (/\ lastOp'.op = "handleNodeJoin" /\ lastOp'.proc = p
              /\ lastOp'.a \in DOMAIN nodes[p])
             => /\ nodes'[p][lastOp'.a] = NodeInfo(lastOp'.a, NodeStatusAlive, <<>>)
                /\ edges'[p] = edges[p]
          /\ (/\ lastOp'.op = "AddLink" /\ lastOp'.proc = p
              /\ lastOp'.a # <<>> /\ lastOp'.b # <<>>
              /\ lastOp'.a \in DOMAIN nodes[p])
             => /\ nodes'[p][lastOp'.a] = NodeInfo(lastOp'.a, NodeStatusUnknown, lastOp'.b)
                /\ ~lastOp'.fired => edges'[p] = edges[p]
                /\ C16_EdgesBut(edges'[p], p, lastOp'.a) = C16_EdgesBut(edges[p], p, lastOp'.a)]_vars

\* C16 witness: control AddLink named a neighbour that the Topology already held
\* and that the route table reaches: the probe failed, so add_node was all it did;
\* the NodeInfo is the new one and the link to the neighbour is still there
C16_Witness ==
    /\ lastOp.op = "AddLink" /\ ~lastOp.fired
    /\ lastOp.a = IdB /\ lastOp.b = HostPort
    /\ nodes[IdA][IdB] = NodeInfo(IdB, NodeStatusUnknown, HostPort)
    /\ HasCost(edges[IdA], IdA, IdB) /\ HasCost(edges[IdA], IdB, IdA)
    /\ IdB \in DOMAIN routeTable[IdA]

----------------------------------------------------------------------------
(* C19 *)

\* C19 as stated: after the SDK's AddLink has returned without error, the link
\* self - neighbour is recorded at the probed cost when the cost given was 0 and
\* at the cost given when that was positive
C19_AsClaimed ==
    (lastOp.op = "RouteNode.AddLink" /\ lastOp.fired) =>
        /\ HasCost(edges[lastOp.proc], lastOp.proc, lastOp.a)
        /\ GetCost(edges[lastOp.proc], lastOp.proc, lastOp.a) =
              IF lastOp.asked > 0 THEN lastOp.asked ELSE lastOp.cost

\* C19 witness: the SDK's AddLink with cost 0 recorded the cost the probe returned
C19_Witness ==
    /\ lastOp.op = "RouteNode.AddLink" /\ lastOp.fired
    /\ lastOp.asked = 0 /\ lastOp.cost = MaxCost
    /\ GetCost(edges[lastOp.proc], lastOp.proc, lastOp.a) = MaxCost

----------------------------------------------------------------------------
(* C15 *)

\* C15 as stated: every edge cost stored in a node's Topology is finite and
\* non-negative, whatever cost the link-update events, topology-sync events,
\* control AddLink requests and configured edges carry
C15_AsClaimed ==
    \A p \in Procs : \A from \in DOMAIN edges[p] : \A to \in DOMAIN edges[p][from] :
        /\ edges[p][from][to] >= 0
        /\ edges[p][from][to] < Inf

\* C15 witness: a control AddLink request carried a negative cost and the link was
\* stored at the cost the probe returned (a cost that is not positive is probed)
C15_Witness ==
    /\ lastOp.op = "AddLink" /\ lastOp.fired
    /\ lastOp.asked < 0
    /\ GetCost(edges[lastOp.proc], lastOp.proc, lastOp.a) = lastOp.cost
    /\ lastOp.cost > 0

----------------------------------------------------------------------------
(* C17 *)

\* C17 as stated, its first step: once a node has been shut down, the
\* process-wide cancellation signal established at initialization is cancelled
C17_AsClaimed == \A p \in Procs : life[p].stopped => life[p].cancelled

\* C17 witness: a node has been shut down: its gRPC server is stopped
C17_Witness ==
    /\ lastOp.op = "Stop"
    /\ life[lastOp.proc].stopped
    /\ started[lastOp.proc]

----------------------------------------------------------------------------
(* C11 *)

\* the step is HandleIncomingPacket at node n
C11_Handles(n) ==
    /\ wire.kind = "request" /\ wire.to = n
    /\ lastOp'.op = "HandleIncomingPacket" /\ lastOp'.proc = n

\* the nodes that have handled the packet in flight, the sender first: the chain
\* of callers
C11_Handlers == [i \in 1 .. Len(calls) |-> calls[i].node]

\* how many times x occurs in the trace v
C11_Count(v, x) == Cardinality({i \in DOMAIN v : v[i] = x})

\* every node holds the chain a - a-a - a-a-a and every NodeInfo
C11_Chain ==
    /\ \A p \in Procs : edges[p] = ViewEdges(ChainView)
    /\ \A p \in Procs : DOMAIN nodes[p] = Ids

\* C11 as stated: at each receiving node the trace holds the source exactly once
\* and the receiving node exactly once
C11_AsClaimed ==
    [][\A n \in Procs :
          C11_Handles(n) =>
            /\ C11_Count(wire'.packet.VisitedNodes, wire'.packet.Source) = 1
            /\ C11_Count(wire'.packet.VisitedNodes, n) = 1]_vars

\* C11: at each receiving node the trace is the exact sequence of the nodes that
\* handled the packet: it starts with the source and ends with the receiving node;
\* at the first hop it is [source, peer], each once; on the chain a - a-a - a-a-a a
\* packet of a for a-a-a is delivered at a-a-a with the trace [a, a-a, a-a-a] and
\* the payload sent
C11_TraceIsHandlers ==
    [][\A n \in Procs :
          C11_Handles(n) =>
            LET v == wire'.packet.VisitedNodes
            IN  /\ v = Append(C11_Handlers, n)
                /\ v[1] = wire'.packet.Source
                /\ v[1] = calls[1].node
                /\ v[Len(v)] = n
                /\ Len(calls) = 1 =>
                      /\ v = <<wire'.packet.Source, n>>
                      /\ C11_Count(v, wire'.packet.Source) = 1
                      /\ C11_Count(v, n) = 1
                /\ wire'.packet.Payload = calls[1].packet.Payload
                /\ (C11_Chain /\ calls[1].node = IdA /\ wire.packet.Destination = IdC /\ n = IdC)
                      => /\ v = <<IdA, IdB, IdC>>
                         /\ wire'.delivered]_vars

\* C11 witness: on the chain a packet of a for a-a-a has been delivered at a-a-a
\* with the trace [a, a-a, a-a-a] and the payload "hi"
C11_Witness ==
    /\ lastOp.op = "HandleIncomingPacket" /\ lastOp.proc = IdC /\ lastOp.result = "ok"
    /\ wire.delivered
    /\ wire.packet.VisitedNodes = <<IdA, IdB, IdC>>
    /\ wire.packet.Payload = "hi"
    /\ stats[IdC].PacketsDelivered = 1
    /\ Len(calls) = 2

----------------------------------------------------------------------------
(* C13 *)

\* the step enters forwardPacket at p with a packet for dest: from SendPacket, or
\* from HandleIncomingPacket of a packet that is not p's own
C13_Forwards(p, dest) ==
    /\ lastOp'.proc = p /\ lastOp'.a = dest
    /\ \/ lastOp'.op = "SendPacket" /\ calls = <<>>
       \/ /\ lastOp'.op = "HandleIncomingPacket"
          /\ wire.kind = "request" /\ wire.to = p /\ dest # p

\* get_route misses, or the NodeInfo of the route's next hop is absent
C13_FailsLocally(p, dest) ==
    \/ dest \notin DOMAIN routeTable[p]
    \/ routeTable[p][dest].NextHop \notin DOMAIN nodes[p]

\* C13: when forwardPacket fails locally, because get_route misses or because the
\* NodeInfo of the next hop is absent, no forward RPC is issued and no connection
\* is made, the node's dropped counter grows by exactly one, its forwarded and
\* delivered counters are unchanged, and the caller gets an error
C13_LocalFailure ==
    [][\A p \in Procs, dest \in Ids :
          (C13_Forwards(p, dest) /\ C13_FailsLocally(p, dest)) =>
            /\ wire'.kind # "request"
            /\ calls' = calls
            /\ connPool' = connPool
            /\ Len(conns') = Len(conns)
            /\ stats'[p].PacketsDropped = stats[p].PacketsDropped + 1
            /\ stats'[p].PacketsForwarded = stats[p].PacketsForwarded
            /\ stats'[p].PacketsDelivered = stats[p].PacketsDelivered
            /\ \A q \in Procs \ {p} : stats'[q] = stats[q]
            /\ lastOp'.result = "error"
            /\ ~wire'.Success
            /\ wire'.Message = IF dest \notin DOMAIN routeTable[p]
                               THEN "no route" ELSE "next hop not found"
            /\ wire'.kind = IF calls = <<>> THEN "done" ELSE "response"]_vars

\* C13 witness: a-a, whose route to a-a-a is still in its table while the NodeInfo
\* of a-a-a has left its Topology, has dropped a packet of a and answered the error
C13_Witness ==
    /\ lastOp.op = "HandleIncomingPacket" /\ lastOp.proc = IdB /\ lastOp.result = "error"
    /\ wire.kind = "response" /\ wire.Message = "next hop not found"
    /\ IdC \in DOMAIN routeTable[IdB] /\ IdC \notin DOMAIN nodes[IdB]
    /\ stats[IdB].PacketsDropped = 1 /\ stats[IdB].PacketsForwarded = 0
    /\ Len(calls) = 1

----------------------------------------------------------------------------
(* C14 *)

\* C14 as stated: the result of a send depends only on whether the first hop
\* accepted the packet: once the first hop has taken the packet and delivered it
\* or sent it on, and its answer has come back to the source, the send succeeds
C14_AsClaimed ==
    (/\ wire.kind = "done"
     /\ wire.accepted
     /\ wire.Message # "failed to forward packet")
        => wire.Success

\* C14: the result of a send is end to end: the send succeeds only if the packet
\* was delivered at its destination and no forwardPacket on the way returned an
\* error; a failure at any hop turns the send of the source into a failure
C14_ResultIsEndToEnd ==
    wire.kind = "done" =>
        /\ wire.Success <=> ~wire.failed
        /\ wire.Success => wire.delivered
        /\ lastOp.op \in {"SendPacket", "SendPacket returns"} =>
              lastOp.result = IF wire.Success THEN "ok" ELSE "error"

\* C14 witness: the send of a for a-a-a has failed with "forward failed": a-a took
\* the packet and sent it on, the hop after a-a failed, a-a counted a drop and
\* answered without success, and a counted a drop too
C14_Witness ==
    /\ lastOp.op = "SendPacket returns" /\ lastOp.proc = IdA /\ lastOp.result = "error"
    /\ wire.kind = "done" /\ wire.accepted /\ ~wire.delivered
    /\ wire.Message = "forward failed"
    /\ wire.packet.VisitedNodes = <<IdA, IdB>>
    /\ stats[IdA].PacketsDropped = 1 /\ stats[IdB].PacketsDropped = 1
    /\ stats[IdA].PacketsSent = 1

----------------------------------------------------------------------------
(* C18 *)

\* C18: ForwardManager.Close closes every pooled connection and leaves the pool
\* empty; a forwardPacket that issues an RPC never uses a closed connection, and
\* when the pool holds no connection to the next hop, as after Close, the
\* connection it uses is a new one, which it pools
C18_CloseEmptiesPool ==
    [][\A p \in Procs :
          /\ (lastOp'.op = "Close" /\ lastOp'.proc = p) =>
                /\ connPool'[p] = EmptyMap
                /\ \A peer \in DOMAIN connPool[p] :
                      conns'[connPool[p][peer]].state = "SHUTDOWN"
                /\ \A c \in DOMAIN conns :
                      (\A peer \in DOMAIN connPool[p] : connPool[p][peer] # c) =>
                          conns'[c] = conns[c]
          /\ (/\ lastOp'.op \in {"SendPacket", "HandleIncomingPacket"}
              /\ lastOp'.proc = p /\ lastOp'.fired) =>
                /\ wire'.kind = "request"
                /\ conns'[wire'.conn].state # "SHUTDOWN"
                /\ conns'[wire'.conn].owner = p /\ conns'[wire'.conn].peer = wire'.to
                /\ connPool'[p][wire'.to] = wire'.conn
                /\ wire'.to \notin DOMAIN connPool[p] =>
                      /\ wire'.conn \notin DOMAIN conns
                      /\ conns'[wire'.conn].state = "IDLE"]_vars

\* C18 witness: a has sent a second packet after its ForwardManager was closed: the
\* first connection to a-a was closed by Close, the send goes over a second one
C18_Witness ==
    /\ lastOp.op = "SendPacket" /\ lastOp.proc = IdA /\ lastOp.fired
    /\ Len(conns) = 2
    /\ conns[1].owner = IdA /\ conns[1].peer = IdB /\ conns[1].closedBy = "Close"
    /\ conns[2].owner = IdA /\ conns[2].peer = IdB /\ conns[2].state = "IDLE"
    /\ wire.kind = "request" /\ wire.conn = 2
    /\ connPool[IdA] = (IdB :> 2)

----------------------------------------------------------------------------
(* C12 *)

\* C12: a get_route or get_next_hop that runs concurrently with a recomputation
\* returns what the previous table or what the newly computed table holds for its
\* destination; the table the readers use is at all times a whole one: the previous
\* table while the recomputation runs, the new one from the swap on
C12_WholeTables ==
    /\ observed.taken =>
          observed.got \in {Lookup(observed.old, observed.dest, observed.fn),
                            Lookup(observed.new, observed.dest, observed.fn)}
    /\ \A p \in Procs :
          routeTable[p] = IF rm[p].lock = "writer" THEN rm[p].old ELSE rm[p].target

\* C12 witness: a get_route for a-a-a was called while a recomputation was adding
\* routes; it has returned the route of the new table, which the previous table
\* did not hold
C12_Witness ==
    /\ observed.taken /\ observed.during /\ observed.fn = "GetRoute"
    /\ observed.proc = IdA /\ observed.dest = IdC
    /\ observed.old = NewRouteTable
    /\ Cardinality(DOMAIN observed.new) = 2
    /\ observed.got = Lookup(observed.new, IdC, "GetRoute")
    /\ observed.got # EmptyMap

----------------------------------------------------------------------------
(* C24 *)

\* C24: when emitting the link-update fails, register_link and unregister_link
\* return the error and the Topology keeps the mutation: the edge is at the new
\* cost in both directions, or absent in both directions
C24_EmitFailureKeepsMutation ==
    [][\A p \in Procs :
          /\ (lastOp'.op = "RegisterLink" /\ lastOp'.proc = p /\ ~lastOp'.fired) =>
                /\ lastOp'.result = "error"
                /\ HasCost(edges'[p], lastOp'.a, lastOp'.b)
                /\ GetCost(edges'[p], lastOp'.a, lastOp'.b) = lastOp'.cost
                /\ HasCost(edges'[p], lastOp'.b, lastOp'.a)
                /\ GetCost(edges'[p], lastOp'.b, lastOp'.a) = lastOp'.cost
                /\ inbox' = inbox
          /\ (lastOp'.op = "UnregisterLink" /\ lastOp'.proc = p /\ ~lastOp'.fired) =>
                /\ lastOp'.result = "error"
                /\ ~HasCost(edges'[p], lastOp'.a, lastOp'.b)
                /\ ~HasCost(edges'[p], lastOp'.b, lastOp'.a)
                /\ inbox' = inbox]_vars

\* C24 witness: register_link has returned the error of a failed emit after it
\* changed the cost of a link the Topology held: the link is at the new cost
C24_Witness ==
    /\ lastOp.op = "RegisterLink" /\ lastOp.result = "error"
    /\ lastOp.a = IdA /\ lastOp.b = IdB /\ lastOp.cost = MaxCost
    /\ GetCost(edges[IdA], IdA, IdB) = MaxCost
    /\ IdB \in DOMAIN routeTable[IdA] /\ routeTable[IdA][IdB].Cost = 1

----------------------------------------------------------------------------
(* C29 *)

\* the last event of p's eventCh is a topology-sync of p's own
C29_OwnSyncQueued(box, p) ==
    /\ box[p] # <<>>
    /\ box[p][Len(box[p])].type = EventTopologySync
    /\ box[p][Len(box[p])].NodeID = p

\* C29: EnableSync changes nothing but the flag; a tick while sync is disabled
\* emits nothing; a link-update or a topology-sync of another node handled while
\* sync is disabled is merged into the Topology all the same; a tick while sync
\* is enabled whose emit serf accepts puts the node's topology-sync on the wire
C29_GatesOnlyBroadcast ==
    [][\A p \in Procs :
          /\ (lastOp'.op = "EnableSync" /\ lastOp'.proc = p) =>
                /\ syncEnabled'[p] = lastOp'.fired
                /\ nodes' = nodes /\ edges' = edges /\ routeTable' = routeTable
                /\ inbox' = inbox
          /\ (lastOp'.op = "broadcastFullTopology" /\ lastOp'.proc = p /\ ~syncEnabled[p]) =>
                /\ inbox' = inbox
                /\ ~lastOp'.fired
          /\ (lastOp'.op = "broadcastFullTopology" /\ lastOp'.proc = p /\ syncEnabled[p]
                  /\ lastOp'.fired) =>
                C29_OwnSyncQueued(inbox', p)
          /\ (lastOp'.op = "handleLinkUpdate" /\ lastOp'.proc = p /\ ~syncEnabled[p]) =>
                IF Head(inbox[p]).Op = "remove"
                THEN ~HasCost(edges'[p], lastOp'.a, lastOp'.b)
                ELSE /\ HasCost(edges'[p], lastOp'.a, lastOp'.b)
                     /\ GetCost(edges'[p], lastOp'.a, lastOp'.b) = lastOp'.cost
          /\ (lastOp'.op = "handleTopologySync" /\ lastOp'.proc = p /\ ~syncEnabled[p]
                  /\ lastOp'.event.NodeID # p) =>
                \A link \in lastOp'.event.Links :
                    /\ HasCost(edges'[p], link.From, link.To)
                    /\ GetCost(edges'[p], link.From, link.To) <= link.Cost
                    /\ (~HasCost(edges[p], link.From, link.To) => lastOp'.fired)]_vars

\* C29 witness: with sync disabled, the node has just adopted a link from the
\* topology-sync of another node
C29_Witness ==
    /\ ~syncEnabled[IdA]
    /\ lastOp.op = "handleTopologySync" /\ lastOp.fired
    /\ lastOp.event.NodeID = IdB
    /\ HasCost(edges[IdA], IdA, IdB)

----------------------------------------------------------------------------
(* C28 *)

\* C28: HandleIncomingPacket at n counts a delivery exactly when the packet's
\* destination is n, and then answers success and issues no RPC; for any other
\* destination it enters forwardPacket (which issues the RPC or counts a drop) and
\* counts no delivery; no other step counts a delivery at all
C28_DeliversExactlyOwn ==
    [][\A n \in Procs :
          LET handles == lastOp'.op = "HandleIncomingPacket" /\ lastOp'.proc = n
              delivers == stats'[n].PacketsDelivered = stats[n].PacketsDelivered + 1
          IN  /\ (handles /\ wire.packet.Destination = n) =>
                    /\ delivers
                    /\ wire'.kind = "response" /\ wire'.Success
                    /\ calls' = calls /\ Len(conns') = Len(conns)
                    /\ stats'[n].PacketsForwarded = stats[n].PacketsForwarded
                    /\ stats'[n].PacketsDropped = stats[n].PacketsDropped
              /\ (handles /\ wire.packet.Destination # n) =>
                    /\ stats'[n].PacketsDelivered = stats[n].PacketsDelivered
                    /\ \/ /\ Len(calls') = Len(calls) + 1
                          /\ calls'[Len(calls')].node = n
                          /\ wire'.kind = "request"
                       \/ /\ stats'[n].PacketsDropped = stats[n].PacketsDropped + 1
                          /\ wire'.kind = "response" /\ ~wire'.Success
              /\ ~handles => stats'[n].PacketsDelivered = stats[n].PacketsDelivered]_vars

\* C28 witness: the packet a sent to a-a-a was forwarded by a-a, which counted no
\* delivery, and delivered by a-a-a
C28_Witness ==
    /\ lastOp.op = "HandleIncomingPacket" /\ lastOp.proc = IdC /\ lastOp.result = "ok"
    /\ wire.packet.Source = IdA /\ wire.packet.Destination = IdC
    /\ stats[IdC].PacketsDelivered = 1
    /\ stats[IdB].PacketsDelivered = 0 /\ stats[IdB].PacketsReceived = 1

----------------------------------------------------------------------------
(* C23 *)

\* every pool entry is a connection of the pool's node to the entry's peer, and
\* every connection ever made is the pool entry of its peer or closed
C23_PoolHoldsTheOpen ==
    /\ \A p \in Procs : \A peer \in DOMAIN connPool[p] :
          /\ connPool[p][peer] \in DOMAIN conns
          /\ conns[connPool[p][peer]].owner = p
          /\ conns[connPool[p][peer]].peer = peer
    /\ \A c \in DOMAIN conns :
          \/ conns[c].state = "SHUTDOWN"
          \/ /\ conns[c].peer \in DOMAIN connPool[conns[c].owner]
             /\ connPool[conns[c].owner][conns[c].peer] = c
    /\ \A c, d \in DOMAIN conns :
          (/\ conns[c].owner = conns[d].owner /\ conns[c].peer = conns[d].peer
           /\ conns[c].state # "SHUTDOWN" /\ conns[d].state # "SHUTDOWN") => c = d

\* a forwardPacket of p that issues its RPC to hop: a pooled connection that is
\* READY is the one used and nothing is made or closed; one that is not READY is
\* closed and replaced in the pool by a new connection
C23_Acquires(p, hop) ==
    IF hop \in DOMAIN connPool[p]
    THEN LET old == connPool[p][hop]
         IN  IF conns'[old].state = "READY"
             THEN /\ wire'.conn = old
                  /\ connPool'[p] = connPool[p]
                  /\ Len(conns') = Len(conns)
             ELSE /\ conns'[old].state = "SHUTDOWN"
                  /\ Len(conns') = Len(conns) + 1
                  /\ connPool'[p][hop] = Len(conns')
                  /\ wire'.conn = Len(conns')
    ELSE /\ Len(conns') = Len(conns) + 1
         /\ connPool'[p][hop] = Len(conns')
         /\ wire'.conn = Len(conns')

\* C23: the pool holds at most one connection per peer and every connection ever
\* made is the current pool entry or closed; an acquisition reuses the pooled
\* connection when it is READY and otherwise closes it and installs a new one
C23_OnePerPeer ==
    /\ []C23_PoolHoldsTheOpen
    /\ [][\A p \in Procs :
            (lastOp'.op \in {"SendPacket", "HandleIncomingPacket"} /\ lastOp'.proc = p
                /\ lastOp'.fired) => C23_Acquires(p, lastOp'.b)]_vars

\* C23 witness: getClient has closed a stale connection and the pool holds its
\* replacement, which is open
C23_Witness ==
    \E c \in DOMAIN conns :
        /\ conns[c].closedBy = "getClient"
        /\ conns[c].peer \in DOMAIN connPool[conns[c].owner]
        /\ connPool[conns[c].owner][conns[c].peer] # c
        /\ conns[connPool[conns[c].owner][conns[c].peer]].state # "SHUTDOWN"

----------------------------------------------------------------------------
(* C25 *)

\* the entries of links for the unordered pair {a, b}
C25_EntriesOf(links, a, b) == {l \in links : {l.From, l.To} = {a, b}}

\* links holds one entry for every edge of e, with the edge's cost, and no other
C25_OneEntryPerEdge(e, links) ==
    /\ \A a, b \in AdjKeys(e) :
          HasCost(e, a, b) =>
              /\ Cardinality(C25_EntriesOf(links, a, b)) = 1
              /\ \A l \in C25_EntriesOf(links, a, b) : l.Cost = GetCost(e, a, b)
    /\ \A l \in links : HasCost(e, l.From, l.To)

\* C25: the topology-sync a periodic broadcast puts on the wire holds exactly
\* one entry for every edge of the sender's adjacency, with its cost, and no
\* other entry
C25_AsClaimed ==
    [][\A p \in Procs :
          (lastOp'.op = "broadcastFullTopology" /\ lastOp'.proc = p /\ lastOp'.fired) =>
              C25_OneEntryPerEdge(edges[p], inbox'[p][Len(inbox'[p])].Links)]_vars

\* C25 witness: a has broadcast its two links a - a-a and a - a-a-a, whose edge
\* ids differ: the event holds one entry for each
C25_Witness ==
    /\ lastOp.op = "broadcastFullTopology" /\ lastOp.proc = IdA /\ lastOp.fired
    /\ HasCost(edges[IdA], IdA, IdB) /\ HasCost(edges[IdA], IdA, IdC)
    /\ ~HasCost(edges[IdA], IdB, IdB)
    /\ inbox[IdB] # <<>>
    /\ inbox[IdB][Len(inbox[IdB])].NodeID = IdA
    /\ Cardinality(inbox[IdB][Len(inbox[IdB])].Links) = 2
    /\ C25_OneEntryPerEdge(edges[IdA], inbox[IdB][Len(inbox[IdB])].Links)

----------------------------------------------------------------------------
(* C22 *)

\* C22: rm.mtx is held for writing only for the swap, when ComputeRoutes has
\* finished its table; so a get_route that is waiting waits for the swap alone
C22_AsClaimed ==
    /\ \A p \in Procs :
          rm[p].lock = "writer" => DOMAIN rm[p].building = DOMAIN rm[p].target
    /\ observed.pending =>
          \/ rm[observed.proc].lock = "free"
          \/ DOMAIN rm[observed.proc].building = DOMAIN rm[observed.proc].target

\* C22 witness: a get_route called during a recomputation is waiting, and the
\* recomputation has only the swap left to do
C22_Witness ==
    /\ observed.pending /\ observed.during /\ observed.proc = IdA
    /\ rm[IdA].lock = "writer"
    /\ rm[IdA].target # NewRouteTable
    /\ rm[IdA].building = rm[IdA].target

----------------------------------------------------------------------------
(* C21 *)

\* the tables ComputeRoutes returns for the Topology states p's Topology has
\* been in during the recomputation under way
C21_SnapshotTables(p) == UNION {ComputeRoutes(p, nodes[p], e) : e \in rm[p].during}

\* C21: the table a recomputation publishes is the table of one Topology state
\* that existed during the recomputation
C21_AsClaimed ==
    [][\A p \in Procs :
          (lastOp'.op = "RecomputeRoutes" /\ lastOp'.proc = p) =>
              routeTable'[p] \in C21_SnapshotTables(p)]_vars

\* C21 witness: a recomputation during which the Topology changed has published
\* a table with a route, and it is the table of one of the states the Topology
\* was in
C21_Witness ==
    /\ lastOp.op = "RecomputeRoutes" /\ lastOp.proc = IdA
    /\ Cardinality(rm[IdA].during) >= 2
    /\ routeTable[IdA] # NewRouteTable
    /\ routeTable[IdA] \in C21_SnapshotTables(IdA)

----------------------------------------------------------------------------
(* C26 *)

\* C26: a link-update handled for endpoints without NodeInfo records the edge
\* and creates no NodeInfo; a member-join handled for an endpoint x that has an
\* edge and no NodeInfo registers x, keeps every edge at its cost, and the
\* recomputation it triggers publishes the route to x over the link from p to x
C26_EdgeBeforeNode ==
    [][\A p \in Procs :
          /\ (lastOp'.op = "handleLinkUpdate" /\ lastOp'.proc = p
                  /\ Head(inbox[p]).Op \in {"add", "update"}) =>
                /\ nodes' = nodes
                /\ HasCost(edges'[p], lastOp'.a, lastOp'.b)
                /\ GetCost(edges'[p], lastOp'.a, lastOp'.b) = lastOp'.cost
                /\ HasCost(edges'[p], lastOp'.b, lastOp'.a)
                /\ GetCost(edges'[p], lastOp'.b, lastOp'.a) = lastOp'.cost
          /\ (lastOp'.op = "handleNodeJoin" /\ lastOp'.proc = p
                  /\ ~HasNode(nodes[p], lastOp'.a)) =>
                /\ HasNode(nodes'[p], lastOp'.a)
                /\ \A x, y \in AdjKeys(edges[p]) :
                      HasCost(edges[p], x, y) =>
                          /\ HasCost(edges'[p], x, y)
                          /\ GetCost(edges'[p], x, y) = GetCost(edges[p], x, y)
                /\ HasCost(edges[p], p, lastOp'.a) =>
                      /\ lastOp'.a \in DOMAIN routeTable'[p]
                      /\ routeTable'[p][lastOp'.a].NextHop = lastOp'.a
                      /\ routeTable'[p][lastOp'.a].Cost = GetCost(edges[p], p, lastOp'.a)
                      /\ routeTable'[p][lastOp'.a].Path = <<p, lastOp'.a>>]_vars

\* C26 witness: the member-join of a-a has been handled at a, which held the
\* link a - a-a before: a-a is registered by the join, the link is there and the
\* table routes to a-a over it
C26_Witness ==
    /\ lastOp.op = "handleNodeJoin" /\ lastOp.proc = IdA /\ lastOp.a = IdB
    /\ HasNode(nodes[IdA], IdB)
    /\ nodes[IdA][IdB].Status = NodeStatusAlive /\ nodes[IdA][IdB].RPCAddr = <<>>
    /\ GetCost(edges[IdA], IdA, IdB) = MaxCost
    /\ IdB \in DOMAIN routeTable[IdA]
    /\ routeTable[IdA][IdB].Cost = MaxCost

----------------------------------------------------------------------------
(* C27 *)

\* the Topology (n, e) holds nothing of x: no NodeInfo, no adjacency entry, no
\* edge to it
C27_Gone(n, e, x) ==
    /\ ~HasNode(n, x)
    /\ x \notin DOMAIN e
    /\ \A y \in DOMAIN e : x \notin DOMAIN e[y]

\* no route of the table has x as destination or as next hop
C27_NoRouteBy(table, x) ==
    /\ x \notin DOMAIN table
    /\ \A d \in DOMAIN table : table[d].NextHop # x

\* C27: once a member-leave of x is handled and the table recomputed, the
\* Topology holds neither NodeInfo nor edge of x and the table no route to or
\* over x; and from a state where x has no NodeInfo and the table no route to or
\* over x, as the one after the leave, no step that leaves x without NodeInfo
\* (x is not added again) publishes a table with a route to or over x
C27_AsClaimed ==
    [][\A p \in Procs :
          /\ (lastOp'.op = "handleNodeLeave" /\ lastOp'.proc = p) =>
                /\ C27_Gone(nodes'[p], edges'[p], lastOp'.a)
                /\ C27_NoRouteBy(routeTable'[p], lastOp'.a)
          /\ \A x \in WideIds \ {p} :
                (/\ ~HasNode(nodes[p], x) /\ C27_NoRouteBy(routeTable[p], x)
                 /\ ~HasNode(nodes'[p], x)) => C27_NoRouteBy(routeTable'[p], x)]_vars

\* C27 witness: the member-leave of a-a has been handled at a: a holds neither
\* NodeInfo nor edge of a-a, and its table no route to a-a
C27_Witness ==
    /\ lastOp.op = "handleNodeLeave" /\ lastOp.proc = IdA /\ lastOp.a = IdB
    /\ C27_Gone(nodes[IdA], edges[IdA], IdB)
    /\ C27_NoRouteBy(routeTable[IdA], IdB)
    /\ ~crashed[IdA]

----------------------------------------------------------------------------
(* C30 *)

\* C30: handling a link-update or topology-sync whose payload cannot be decoded
\* takes the event off the channel and changes neither the Topology nor the
\* route table; no change-notification is fired (nothing is recomputed), and the
\* event loop is still running, ready for the next event
C30_UndecodableIgnored ==
    [][\A p \in Procs :
          (lastOp'.op = "handleUserEvent" /\ lastOp'.proc = p) =>
              /\ nodes' = nodes /\ edges' = edges
              /\ routeTable' = routeTable
              /\ unread' = unread
              /\ ~lastOp'.fired
              /\ inbox'[p] = Tail(inbox[p])
              /\ started'[p] /\ ~crashed'[p] /\ ~life'[p].cancelled]_vars

\* C30 witness: an undecodable event has been handled at a while the table was
\* out of date (a link recorded by a RegisterLink whose emit failed): the table
\* is still the old one
C30_Witness ==
    /\ lastOp.op = "handleUserEvent" /\ lastOp.proc = IdA /\ lastOp.result = "error"
    /\ unread[IdA]
    /\ HasNode(nodes[IdA], IdB) /\ HasCost(edges[IdA], IdA, IdB)
    /\ IdB \notin DOMAIN routeTable[IdA]

----------------------------------------------------------------------------
(* C31 *)

\* every id of the sequence path but the source src holds a NodeInfo in n
C31_AllRegistered(n, src, path) ==
    \A k \in DOMAIN path : path[k] = src \/ HasNode(n, path[k])

\* C31: in the table a recomputation publishes, no route has a destination, a
\* next hop or a node of its path that has no NodeInfo in the Topology
C31_AsClaimed ==
    [][\A p \in Procs :
          (lastOp'.op = "RecomputeRoutes" /\ lastOp'.proc = p) =>
              \A d \in DOMAIN routeTable'[p] :
                  /\ HasNode(nodes[p], d)
                  /\ HasNode(nodes[p], routeTable'[p][d].NextHop)
                  /\ C31_AllRegistered(nodes[p], p, routeTable'[p][d].Path)]_vars

\* C31 witness: a is linked to a-a-a only over a-a, which has no NodeInfo, at
\* costs above zero; the table a recomputes holds neither of them
C31_Witness ==
    /\ lastOp.op = "RecomputeRoutes" /\ lastOp.proc = IdA /\ ~crashed[IdA]
    /\ ~HasNode(nodes[IdA], IdB) /\ HasNode(nodes[IdA], IdC)
    /\ GetCost(edges[IdA], IdA, IdB) = 1 /\ GetCost(edges[IdA], IdB, IdC) = 1
    /\ ~HasCost(edges[IdA], IdA, IdC)
    /\ routeTable[IdA] = NewRouteTable

----------------------------------------------------------------------------
(* C32 *)

\* the table published at p is one ComputeRoutes returns for the Topology (n, e)
C32_UpToDate(p, table, n, e) == table \in ComputeRoutes(p, n, e)

\* C32: when a member event, a link-update, a topology-sync, a RegisterLink or
\* an UnregisterLink has been handled at a node whose table was that of its
\* Topology, and its callback, if fired, has returned, the table is that of the
\* Topology again
C32_AsClaimed ==
    [][\A p \in Procs :
          (/\ lastOp'.proc = p
           /\ lastOp'.op \in {"handleNodeJoin", "handleNodeLeave", "handleLinkUpdate",
                               "handleTopologySync", "RegisterLink", "UnregisterLink"}
           /\ ~crashed'[p]
           /\ C32_UpToDate(p, routeTable[p], nodes[p], edges[p])) =>
              C32_UpToDate(p, routeTable'[p], nodes'[p], edges'[p])]_vars

\* C32 witness: a link-update has been handled at a, which knows a-a; the table
\* is that of the Topology and routes to a-a over the link
C32_Witness ==
    /\ lastOp.op = "handleLinkUpdate" /\ lastOp.proc = IdA
    /\ HasNode(nodes[IdA], IdB) /\ HasCost(edges[IdA], IdA, IdB)
    /\ IdB \in DOMAIN routeTable[IdA]
    /\ C32_UpToDate(IdA, routeTable[IdA], nodes[IdA], edges[IdA])

----------------------------------------------------------------------------
(* C34 *)

\* C34: a send that has returned success was delivered: the forward manager of
\* the packet's destination took the packet, counted it as delivered, and the
\* packet it took carried the payload the send was given
C34_SuccessMeansDelivered ==
    (wire.kind = "done" /\ wire.Success) =>
        /\ wire.delivered
        /\ wire.packet.Destination \in Procs
        /\ stats[wire.packet.Destination].PacketsDelivered >= 1
        /\ wire.packet.VisitedNodes[Len(wire.packet.VisitedNodes)] = wire.packet.Destination
        /\ wire.packet.Payload = wire.payload

\* C34 witness: the send of a for a-a-a with payload "yo" has returned success;
\* a-a-a counted the delivery of the packet, payload "yo"
C34_Witness ==
    /\ wire.kind = "done" /\ wire.Success
    /\ lastOp.op = "SendPacket returns" /\ lastOp.proc = IdA
    /\ wire.packet.Destination = IdC /\ wire.payload = "yo"
    /\ wire.packet.Payload = "yo"
    /\ stats[IdC].PacketsDelivered >= 1

----------------------------------------------------------------------------
(* C39 *)

\* the calls of SendPacket and HandleIncomingPacket in progress at p: each is
\* inside forwardPacket, waiting for its RPC
C39_InProgress(p) == Cardinality({k \in DOMAIN calls : calls[k].node = p})

\* C39: at every node the packets taken in (sent and received) are those
\* accounted for (forwarded, delivered, dropped) and those of the calls still in
\* progress there; so with no call in progress
\* sent + received = forwarded + delivered + dropped
C39_CountersBalance ==
    \A p \in Procs :
        stats[p].PacketsSent + stats[p].PacketsReceived =
            stats[p].PacketsForwarded + stats[p].PacketsDelivered
                + stats[p].PacketsDropped + C39_InProgress(p)

\* C39 witness: no call is in progress; a-a has sent one packet and received
\* one, forwarded one and dropped one
C39_Witness ==
    /\ calls = <<>> /\ wire.kind = "done"
    /\ stats[IdB].PacketsSent = 1 /\ stats[IdB].PacketsReceived = 1
    /\ stats[IdB].PacketsForwarded = 1 /\ stats[IdB].PacketsDropped = 1
    /\ stats[IdB].PacketsDelivered = 0

----------------------------------------------------------------------------
(* C38 *)

\* C38: a control AddLink that answers success = false leaves the NodeInfo
\* records, the edges and the route table as they were
C38_AsClaimed ==
    [][\A p \in Procs :
          (lastOp'.op = "AddLink" /\ lastOp'.proc = p /\ ~lastOp'.fired) =>
              /\ nodes' = nodes
              /\ edges' = edges
              /\ routeTable' = routeTable]_vars

\* C38 witness: a control AddLink without neighbour address has answered
\* success = false at a node that holds no NodeInfo of the neighbour named
C38_Witness ==
    /\ lastOp.op = "AddLink" /\ lastOp.proc = IdA /\ ~lastOp.fired
    /\ lastOp.a = IdB /\ lastOp.b = <<>>
    /\ HasNode(nodes[IdA], IdA)
    /\ ~HasNode(nodes[IdA], IdB)

----------------------------------------------------------------------------
(* C36 *)

\* the removal of a - a-a has been applied at every process: none holds the
\* link (each held it at first and nothing registers it again), and no
\* remove link-update is still to be handled
C36_RemovedEverywhere ==
    /\ \A p \in Procs : ~HasCost(edges[p], IdA, IdB) /\ ~HasCost(edges[p], IdB, IdA)
    /\ \A p \in Procs : \A k \in DOMAIN inbox[p] : inbox[p][k].type # EventLinkUpdate

\* C36: once the removal of the link a - a-a has been applied at every node,
\* with no register_link or AddLink for it afterwards, no step makes a node
\* hold the link again, whatever topology-sync is handled
C36_AsClaimed ==
    [][C36_RemovedEverywhere =>
          \A p \in Procs : ~HasCost(edges'[p], IdA, IdB) /\ ~HasCost(edges'[p], IdB, IdA)]_vars

\* C36 witness: a has handled a topology-sync while the link was removed at
\* a-a and no remove link-update was pending
C36_Witness ==
    /\ lastOp.op = "handleTopologySync" /\ lastOp.proc = IdA
    /\ ~HasCost(edges[IdB], IdA, IdB)
    /\ \A p \in Procs : \A k \in DOMAIN inbox[p] : inbox[p][k].type # EventLinkUpdate

----------------------------------------------------------------------------
(* C35 *)

\* C35: the write of handleTopologySync's merge of one link never raises a cost:
\* if the node holds the link right before the write, the cost stored right
\* after it is not higher, also while register_link and AddLink are served
C35_AsClaimed ==
    [][\A p \in Procs :
          (lastOp'.op = "handleTopologySync merges" /\ lastOp'.proc = p
              /\ HasCost(edges[p], lastOp'.a, lastOp'.b)) =>
                  edges'[p][lastOp'.a][lastOp'.b] <= edges[p][lastOp'.a][lastOp'.b]]_vars

\* C35 witness: a has merged the link a - a-a of a topology-sync at cost 1 in
\* place of the dearer cost it held, after a register_link was served between
\* the GetCost and the write
C35_Witness ==
    /\ lastOp.op = "handleTopologySync merges" /\ lastOp.proc = IdA /\ lastOp.fired
    /\ merge[IdA].exists /\ merge[IdA].existingCost = MaxCost
    /\ edges[IdA][IdA][IdB] = 1
    /\ \E k \in DOMAIN inbox[IdA] : inbox[IdA][k].type = EventLinkUpdate

----------------------------------------------------------------------------
(* C37 *)

\* C37: the connection of a forward RPC in flight has not been closed by a
\* getClient: no acquisition for the same peer replaces the connection a call
\* still waits on
C37_AsClaimed ==
    \A k \in DOMAIN calls :
        ~(conns[calls[k].conn].state = "SHUTDOWN" /\ conns[calls[k].conn].closedBy = "getClient")

\* C37 witness: a second send of a to a-a has been served while the first RPC of
\* a to a-a is in flight, on the connection the first one uses
C37_Witness ==
    /\ lastOp.op = "SendPacket meanwhile" /\ lastOp.proc = IdA /\ lastOp.fired
    /\ Len(calls) >= 1 /\ calls[1].node = IdA
    /\ connPool[IdA][IdB] = calls[1].conn
    /\ conns[calls[1].conn].state = "READY"

----------------------------------------------------------------------------
(* C33 *)

\* the nodes a walk along the links of e reaches from the nodes of seen
RECURSIVE C33_ReachedFrom(_, _)
C33_ReachedFrom(e, seen) ==
    LET next == seen \cup {to \in DOMAIN e : \E from \in seen : HasCost(e, from, to)}
    IN  IF next = seen THEN seen ELSE C33_ReachedFrom(e, next)

\* every table was computed from the one Topology all nodes hold, whose costs
\* are strictly positive
C33_SameTopology ==
    /\ \A p \in Procs : nodes[p] = nodes[IdA] /\ edges[p] = edges[IdA]
    /\ \A p \in Procs : routeTable[p] \in ComputeRoutes(p, nodes[IdA], edges[IdA])
    /\ \A from \in DOMAIN edges[IdA] : \A to \in DOMAIN edges[IdA][from] :
          edges[IdA][from][to] > 0

\* the packet under way goes from s to another node d that the links lead to
C33_Reachable ==
    /\ wire.kind # "none"
    /\ wire.packet.Destination # wire.packet.Source
    /\ wire.packet.Destination \in C33_ReachedFrom(edges[IdA], {wire.packet.Source})

\* no node twice in the trace v
C33_NoneTwice(v) == \A i \in DOMAIN v : \A j \in DOMAIN v : v[i] = v[j] => i = j

\* the packet has been delivered at d, or an RPC or a dial has failed under way
\* (no node lacked a route or the NodeInfo of its next hop)
C33_Outcome ==
    /\ wire.Message \notin {"no route", "next hop not found"}
    /\ wire.kind = "done" =>
          \/ wire.delivered /\ wire.Success
               /\ wire.packet.VisitedNodes[Len(wire.packet.VisitedNodes)] = wire.packet.Destination
          \/ wire.failed

----------------------------------------------------------------------------
(* C40 *)

\* t cannot go on before u does: t waits in Lock for a lock u holds, or t waits
\* in RLock for a lock u holds for writing or u waits to write
C40_WaitsFor(t, u) ==
    LET lock == NextLockOp(t)[2]
    IN  \/ WaitsToWrite(t, lock) /\ Holds(u, lock)
        \/ /\ NextLockOp(t)[1] = "RLock"
           /\ HoldsWrite(u, lock) \/ (u # t /\ WaitsToWrite(u, lock))

\* the goroutines some goroutine of S waits for, and those they wait for
RECURSIVE C40_Awaited(_)
C40_Awaited(S) ==
    LET more == S \cup {u \in Tasks : \E t \in S : C40_WaitsFor(t, u)}
    IN  IF more = S THEN S ELSE C40_Awaited(more)

\* C40: in no state of any interleaving of the node's calls do goroutines wait
\* on each other's locks in a circle (a goroutine that waits for itself
\* included)
C40_NoCircularWait ==
    \A t \in Tasks :
        t \notin C40_Awaited({u \in Tasks : C40_WaitsFor(t, u)})

\* C40 witness: the eventLoop holds the Route manager lock for writing inside
\* RecomputeRoutes while a send waits in GetRoute for it, and a control EnableSync
\* waits to write the Topology sync lock that the periodic loop holds
C40_Witness ==
    /\ HoldsWrite("event", "RouteManager")
    /\ NextLockOp("send") = LockOp("RLock", "RouteManager")
    /\ C40_WaitsFor("send", "event")
    /\ WaitsToWrite("control", "TopologySync") /\ Holds("periodic", "TopologySync")

====
